---- MODULE Spec2Model ----
(***************************************************************************)
(* Office-network admission gate of synergyhr: the admission gate (GET),   *)
(* the checkin guard (POST, in its two implementations), the settings      *)
(* cache, the office pass and the client-side network decision.            *)
(*                                                                         *)
(* Strings that the code takes apart (IPs, CIDRs, ASN entries) are         *)
(* sequences of one-character strings, so that split, trim, replace and    *)
(* Number are computed and not assumed. 32-bit unsigned integers are       *)
(* pairs <<hi, lo>> of 16-bit halves.                                      *)
(***************************************************************************)
EXTENDS Integers, Sequences, FiniteSets, TLC

\* ------------------------------------------------------------------------
\* JavaScript values and string primitives
\* ------------------------------------------------------------------------

\* undefined and null where a string or an array is expected: a sequence no
\* real string equals. NaN: numbers parsed here are never negative.
Undefined == <<"undefined">>
Null == <<"null">>
NaN == 0 - 1

Digits == <<"0", "1", "2", "3", "4", "5", "6", "7", "8", "9">>

IsDigit(c) == \E i \in 1..10 : Digits[i] = c

DigitValue(c) == (CHOOSE i \in 1..10 : Digits[i] = c) - 1

IsSpace(c) == c = " "

RECURSIVE TrimStart(_)
TrimStart(s) ==
  IF s # <<>> /\ IsSpace(Head(s)) THEN TrimStart(Tail(s)) ELSE s

RECURSIVE TrimEnd(_)
TrimEnd(s) ==
  IF s # <<>> /\ IsSpace(s[Len(s)]) THEN TrimEnd(SubSeq(s, 1, Len(s) - 1)) ELSE s

\* String.prototype.trim
Trim(s) == TrimEnd(TrimStart(s))

\* String.prototype.split(sep) for a one-character separator
RECURSIVE SplitFrom(_, _, _)
SplitFrom(s, sep, cur) ==
  IF s = <<>> THEN <<cur>>
  ELSE IF Head(s) = sep THEN <<cur>> \o SplitFrom(Tail(s), sep, <<>>)
  ELSE SplitFrom(Tail(s), sep, Append(cur, Head(s)))

Split(s, sep) == SplitFrom(s, sep, <<>>)

RECURSIVE DecValue(_, _)
DecValue(s, acc) ==
  IF s = <<>> THEN acc ELSE DecValue(Tail(s), acc * 10 + DigitValue(Head(s)))

\* Number(string): surrounding white space is ignored, the empty string is 0,
\* a run of decimal digits is its value and anything else is NaN. (Signs,
\* fractions, exponents and radix prefixes do not occur in the inputs drawn.)
NumberOf(s) ==
  IF s = Undefined THEN NaN
  ELSE LET t == Trim(s) IN
       IF t = <<>> THEN 0
       ELSE IF \A i \in 1..Len(t) : IsDigit(t[i]) THEN DecValue(t, 0)
       ELSE NaN

\* Number.isFinite / Number.isInteger on the values NumberOf produces
IsFiniteNumber(v) == v # NaN

\* item.replace(/[^0-9]/g, "")
RECURSIVE StripNonDigits(_)
StripNonDigits(s) ==
  IF s = <<>> THEN <<>>
  ELSE IF IsDigit(Head(s)) THEN <<Head(s)>> \o StripNonDigits(Tail(s))
  ELSE StripNonDigits(Tail(s))

\* asn.replace(/^AS/i, "")
StripAsPrefix(s) ==
  IF Len(s) >= 2 /\ s[1] \in {"A", "a"} /\ s[2] \in {"S", "s"}
  THEN SubSeq(s, 3, Len(s)) ELSE s

\* items.filter(Boolean) on strings: the empty string is dropped
RECURSIVE FilterNonEmpty(_)
FilterNonEmpty(items) ==
  IF items = <<>> THEN <<>>
  ELSE IF Head(items) # <<>> THEN <<Head(items)>> \o FilterNonEmpty(Tail(items))
  ELSE FilterNonEmpty(Tail(items))

\* ------------------------------------------------------------------------
\* Settings values and their normalisation
\* ------------------------------------------------------------------------

\* A setting_value is a native array of strings, a plain string (with what
\* JSON.parse makes of it when it starts with "[": an array, Undefined when
\* it throws, Null when the result is no array), or absent.
ArrayValue(items) == [kind |-> "array", items |-> items]
StringValue(str, parsed) ==
  [kind |-> "string", str |-> str, parsed |-> parsed]
NoValue == [kind |-> "none"]

TrimAll(items) == [i \in DOMAIN items |-> Trim(items[i])]

normalizeStringList(value) ==
  IF value.kind = "array" THEN FilterNonEmpty(TrimAll(value.items))
  ELSE IF value.kind = "string" THEN
    LET trimmed == Trim(value.str) IN
    IF trimmed = <<>> THEN <<>>
    ELSE IF Head(trimmed) = "[" THEN
      IF value.parsed \in {Undefined, Null} THEN <<trimmed>>
      ELSE FilterNonEmpty(TrimAll(value.parsed))
    ELSE <<trimmed>>
  ELSE <<>>

\* new Set(normalizeStringList(v).map(strip non-digits).map(Number).filter(isFinite))
normalizeAsnSet(value) ==
  LET strs == normalizeStringList(value)
      nums == {NumberOf(StripNonDigits(strs[i])) : i \in DOMAIN strs}
  IN {n \in nums : IsFiniteNumber(n)}

\* ------------------------------------------------------------------------
\* IPv4 and CIDR
\* ------------------------------------------------------------------------

IsOctet(v) == v # NaN /\ v >= 0 /\ v <= 255

\* The 32-bit value as <<high 16 bits, low 16 bits>>, or Null
ipv4ToInt(ip) ==
  LET strs == Split(ip, ".")
      parts == [i \in DOMAIN strs |-> NumberOf(strs[i])]
  IN IF Len(parts) # 4 \/ \E i \in DOMAIN parts : ~IsOctet(parts[i])
     THEN Null
     ELSE <<parts[1] * 256 + parts[2], parts[3] * 256 + parts[4]>>

\* AndMask with a mask one bit short
AndMaskShort(x, bits) ==
  LET host == 33 - bits IN
  IF host >= 16
  THEN <<x[1] - (x[1] % (2 ^ (host - 16))), 0>>
  ELSE <<x[1], x[2] - (x[2] % (2 ^ host))>>

\* x & mask, where mask has its top `bits` bits set (bits in 1..32)
AndMask(x, bits) ==
  LET host == 32 - bits IN
  IF host >= 16
  THEN <<x[1] - (x[1] % (2 ^ (host - 16))), 0>>
  ELSE <<x[1], x[2] - (x[2] % (2 ^ host))>>

cidrContainsIPv4(cidr, ip) ==
  LET segs == Split(cidr, "/")
      netStr == segs[1]
      bitsStr == IF Len(segs) >= 2 THEN segs[2] ELSE Undefined
      bits == NumberOf(bitsStr)
  IN IF bits = NaN \/ bits < 0 \/ bits > 32 THEN FALSE
     ELSE LET net == ipv4ToInt(netStr)
              addr == ipv4ToInt(ip)
          IN IF net = Null \/ addr = Null THEN FALSE
             ELSE IF bits = 0 THEN TRUE
             ELSE AndMask(net, bits) = AndMask(addr, bits)

ipAllowedByCidrs(cidrs, ip) ==
  IF Len(cidrs) = 0 THEN TRUE
  ELSE \E i \in DOMAIN cidrs : cidrContainsIPv4(Trim(cidrs[i]), ip)

\* ------------------------------------------------------------------------
\* Client IP resolution
\* ------------------------------------------------------------------------

\* getHeaderValue: an absent or empty header is null
getHeaderValue(headers, name) ==
  IF headers[name] = Undefined \/ headers[name] = <<>> THEN Null
  ELSE headers[name]

\* getClientIpFromRequest reading x-real-ip before x-forwarded-for
getClientIpRealIpFirst(headers) ==
  LET cf == getHeaderValue(headers, "cf")
      xff == getHeaderValue(headers, "xff")
      xri == getHeaderValue(headers, "xri")
  IN IF cf # Null THEN Trim(cf)
     ELSE IF xri # Null THEN Trim(xri)
     ELSE IF xff # Null THEN Trim(Split(xff, ",")[1])
     ELSE Null

getClientIpFromRequest(headers) ==
  LET cf == getHeaderValue(headers, "cf")
      xff == getHeaderValue(headers, "xff")
      xri == getHeaderValue(headers, "xri")
  IN IF cf # Null THEN Trim(cf)
     ELSE IF xff # Null THEN Trim(Split(xff, ",")[1])
     ELSE IF xri # Null THEN Trim(xri)
     ELSE Null

\* ------------------------------------------------------------------------
\* Office pass
\* ------------------------------------------------------------------------

\* A token is the sequence of its "."-separated segments. A segment is a
\* base64url text: `data` is what the lenient decoder recovers from it and
\* `extra` counts characters of the text the decoder ignores, so two texts
\* can differ and decode alike. The empty string is EmptySeg.
Seg(data) == [data |-> data, extra |-> 0]
EmptySeg == Seg(<<>>)

\* Buffer.from(b64, "base64url").toString("utf8"): never throws
Base64UrlDecode(seg) == seg.data

\* The decoded body is a JSON text: of a claims object, of null, or no JSON.
JsonText(obj) == <<"json", obj>>
JsonNullText == <<"jsonnull">>
NotJsonText == <<"text">>
NoExp == 0 - 1

\* HMAC-SHA256 as an ideal keyed function: injective in key and message
Hmac(key, body) == <<"hmac", key, body>>

SECRET_UNSET == <<>>

\* verifyOfficePass with a second of grace after exp
verifyOfficePassGrace(token, secret, nowMs) ==
  LET b64 == IF Len(token) >= 1 THEN token[1] ELSE EmptySeg
      sig == IF Len(token) >= 2 THEN token[2] ELSE EmptySeg
      body == Base64UrlDecode(b64)
  IN IF b64 = EmptySeg \/ sig = EmptySeg THEN "false"
     ELSE IF Seg(Hmac(secret, body)) # sig THEN "false"
     ELSE IF body = NotJsonText THEN "false"
     ELSE IF body = JsonNullText THEN "throws"
     ELSE LET exp == body[2].exp IN
          IF exp = NoExp \/ exp = 0 \/ (nowMs \div 1000) > exp + 1 THEN "false"
          ELSE "true"

\* verifyOfficePass rejecting in the second exp names (>= for >)
verifyOfficePassStrict(token, secret, nowMs) ==
  LET b64 == IF Len(token) >= 1 THEN token[1] ELSE EmptySeg
      sig == IF Len(token) >= 2 THEN token[2] ELSE EmptySeg
      body == Base64UrlDecode(b64)
  IN IF b64 = EmptySeg \/ sig = EmptySeg THEN "false"
     ELSE IF Seg(Hmac(secret, body)) # sig THEN "false"
     ELSE IF body = NotJsonText THEN "false"
     ELSE IF body = JsonNullText THEN "throws"
     ELSE LET exp == body[2].exp IN
          IF exp = NoExp \/ exp = 0 \/ (nowMs \div 1000) >= exp THEN "false"
          ELSE "true"

\* verifyOfficePass comparing the decoded signatures, not their texts
verifyOfficePassDecoded(token, secret, nowMs) ==
  LET b64 == IF Len(token) >= 1 THEN token[1] ELSE EmptySeg
      sig == IF Len(token) >= 2 THEN token[2] ELSE EmptySeg
      body == Base64UrlDecode(b64)
  IN IF b64 = EmptySeg \/ sig = EmptySeg THEN "false"
     ELSE IF Hmac(secret, body) # Base64UrlDecode(sig) THEN "false"
     ELSE IF body = NotJsonText THEN "false"
     ELSE IF body = JsonNullText THEN "throws"
     ELSE LET exp == body[2].exp IN
          IF exp = NoExp \/ exp = 0 \/ (nowMs \div 1000) > exp THEN "false"
          ELSE "true"

\* "true", "false", or "throws" (JSON null parses, and reading .exp of it
\* raises a TypeError outside the try block)
verifyOfficePass(token, secret, nowMs) ==
  LET b64 == IF Len(token) >= 1 THEN token[1] ELSE EmptySeg
      sig == IF Len(token) >= 2 THEN token[2] ELSE EmptySeg
      body == Base64UrlDecode(b64)
  IN IF b64 = EmptySeg \/ sig = EmptySeg THEN "false"
     ELSE IF Seg(Hmac(secret, body)) # sig THEN "false"
     ELSE IF body = NotJsonText THEN "false"
     ELSE IF body = JsonNullText THEN "throws"
     ELSE LET exp == body[2].exp IN
          IF exp = NoExp \/ exp = 0 \/ (nowMs \div 1000) > exp THEN "false"
          ELSE "true"

\* signOfficePass of lib/networkGuard, which is not among the sources: from
\* the specification of the signer (claims.exp = nowSeconds + ttl, body =
\* base64url(JSON), signature = base64url(HMAC(JSON)))
signOfficePass(claims, ttlSeconds, secret, nowMs) ==
  LET body == JsonText([ip |-> claims.ip, asn |-> claims.asn,
                        exp |-> (nowMs \div 1000) + ttlSeconds])
  IN <<Seg(body), Seg(Hmac(secret, body))>>

PASS_TTL_SECONDS == 120

\* ------------------------------------------------------------------------
\* The inputs drawn: addresses, settings rows, lookup answers, environment
\* ------------------------------------------------------------------------

IpInside == <<"2","0","3",".","0",".","1","1","3",".","4","2">>
IpOutside == <<"2","0","3",".","0",".","1","1","4",".","1">>
CidrOffice == <<"2","0","3",".","0",".","1","1","3",".","0","/","2","4">>
CidrOther == <<"1","0",".","0",".","0",".","0","/","8">>
AsnOffice == <<"A","S","1","5","1","6","9">>
AsnOther == <<"A","S","6","4","5","0","0">>
Wildcard == <<"*">>

\* The rows of office_settings the gate reads (NoValue: no such row)
Settings(ips, asns, cidrs) ==
  [allowed_ips |-> ips, allowed_asns |-> asns, allowed_cidrs |-> cidrs]

StoreChoices ==
  { Settings(NoValue, NoValue, NoValue),
    Settings(NoValue, ArrayValue(<<>>), ArrayValue(<<CidrOffice>>)),
    Settings(NoValue, ArrayValue(<<AsnOffice>>), ArrayValue(<<>>)),
    Settings(NoValue, ArrayValue(<<AsnOffice>>), ArrayValue(<<CidrOffice>>)),
    Settings(ArrayValue(<<Wildcard>>), ArrayValue(<<AsnOffice>>),
             ArrayValue(<<CidrOther>>)),
    Settings(ArrayValue(<<IpInside>>), ArrayValue(<<>>), ArrayValue(<<>>)),
    Settings(ArrayValue(<<IpInside>>), ArrayValue(<<AsnOther>>),
             ArrayValue(<<CidrOther>>)),
    Settings(ArrayValue(<<Wildcard>>), NoValue, NoValue),
    Settings(ArrayValue(<<>>), ArrayValue(<<>>), ArrayValue(<<CidrOffice>>)) }

\* The rows an administrator chooses among while requests are served
ServedStoreChoices ==
  { Settings(NoValue, NoValue, NoValue),
    Settings(NoValue, ArrayValue(<<AsnOffice>>), ArrayValue(<<CidrOffice>>)),
    Settings(ArrayValue(<<Wildcard>>), ArrayValue(<<AsnOffice>>),
             ArrayValue(<<CidrOther>>)) }

\* An answer of the ASN lookup: the fetch rejects, a non-2xx status, a body
\* that is no JSON, a body without asn, or the asn of the address's operator
LookupThrows == [kind |-> "throws", asn |-> Undefined]
LookupNotOk == [kind |-> "notok", asn |-> Undefined]
LookupBadJson == [kind |-> "badjson", asn |-> Undefined]
LookupData(asn) == [kind |-> "data", asn |-> asn]

LookupAnswers ==
  {LookupThrows, LookupNotOk, LookupBadJson, LookupData(Undefined),
   LookupData(AsnOffice), LookupData(AsnOther)}

\* An answer of the settings store: the rows, a non-2xx status, or a rejected
\* fetch
StoreAnswers == {"rows", "notok", "throws"}

SecretValue == <<"k">>

Env(secret, ipinfo, url, key) ==
  [OFFICE_PASS_SECRET |-> secret, IPINFO_TOKEN |-> ipinfo,
   SUPABASE_URL |-> url, SUPABASE_ANON_KEY |-> key]

EnvChoices ==
  { Env(SecretValue, TRUE, TRUE, TRUE),
    Env(SECRET_UNSET, TRUE, TRUE, TRUE),
    Env(SecretValue, FALSE, TRUE, TRUE),
    Env(SecretValue, TRUE, FALSE, TRUE),
    Env(SecretValue, TRUE, TRUE, FALSE) }

\* process.env.OFFICE_PASS_SECRET ?? ""
SecretOf(e) == e.OFFICE_PASS_SECRET

\* ------------------------------------------------------------------------
\* The server-side network check, in the steps between its awaits
\* ------------------------------------------------------------------------

\* The parse at the end of fetchOfficeSettings
ParseOfficeSettings(rows) ==
  [allowedASNs |-> normalizeAsnSet(rows.allowed_asns),
   allowedCIDRs |-> normalizeStringList(rows.allowed_cidrs)]

\* The result of requireOfficeNetwork; `state` tells a result that was returned
\* from an exception that was thrown and from a check still awaiting an answer
NetOk(ip, asn) ==
  [state |-> "returned", ok |-> TRUE, ip |-> ip, asn |-> asn, reason |-> ""]
NetDenied(reason) ==
  [state |-> "returned", ok |-> FALSE, ip |-> Null, asn |-> 0, reason |-> reason]
NetThrown(message) ==
  [state |-> "thrown", ok |-> FALSE, ip |-> Null, asn |-> 0, reason |-> message]
NetPending ==
  [state |-> "pending", ok |-> FALSE, ip |-> Null, asn |-> 0, reason |-> ""]

\* requireOfficeNetwork before the settings are awaited: a denial, or
\* NetPending when the settings are needed
requireOfficeNetworkStart(e, headers) ==
  IF ~e.IPINFO_TOKEN THEN NetDenied("Server missing IPINFO_TOKEN")
  ELSE LET ip == getClientIpFromRequest(headers) IN
       IF ip = Null \/ ip = <<>> THEN NetDenied("Cannot determine client IP")
       ELSE NetPending

\* requireOfficeNetworkSettings going on to the lookup in every case
requireOfficeNetworkSettingsAlwaysLookup(officeSettings, ip) ==
  IF ~ipAllowedByCidrs(officeSettings.allowedCIDRs, ip)
  THEN NetDenied("IP not in office CIDR")
  ELSE NetPending

\* requireOfficeNetwork once the settings are there: a verdict, or NetPending
\* when the ASN lookup is needed
requireOfficeNetworkSettings(officeSettings, ip) ==
  IF ~ipAllowedByCidrs(officeSettings.allowedCIDRs, ip)
  THEN NetDenied("IP not in office CIDR")
  ELSE IF Cardinality(officeSettings.allowedASNs) = 0 THEN NetOk(ip, 0)
  ELSE NetPending

\* requireOfficeNetwork once the lookup has answered ("throws": the awaited
\* fetch or response.json() rejected, which nothing in the function catches)
requireOfficeNetworkLookup(officeSettings, ip, answer) ==
  IF answer.kind = "throws" THEN NetThrown("fetch failed")
  ELSE IF answer.kind = "badjson" THEN NetThrown("Unexpected token")
  ELSE IF answer.kind = "notok" THEN NetDenied("IPinfo lookup failed")
  ELSE LET asnStr == StripAsPrefix(IF answer.asn = Undefined THEN <<>>
                                   ELSE answer.asn)
           asn == NumberOf(asnStr)
       IN IF ~IsFiniteNumber(asn) THEN NetDenied("ASN missing")
          ELSE IF Cardinality(officeSettings.allowedASNs) > 0
                  /\ asn \notin officeSettings.allowedASNs
          THEN NetDenied("ASN not allowed")
          ELSE NetOk(ip, asn)

\* requireOfficeNetwork as one function of what its awaits return, the
\* settings having been fetched
requireOfficeNetwork(e, headers, officeSettings, answer) ==
  LET s == requireOfficeNetworkStart(e, headers)
      ip == getClientIpFromRequest(headers)
  IN IF s.state # "pending" THEN s
     ELSE LET v == requireOfficeNetworkSettings(officeSettings, ip) IN
          IF v.state # "pending" THEN v
          ELSE requireOfficeNetworkLookup(officeSettings, ip, answer)

\* ------------------------------------------------------------------------
\* The client-side network decision (verifyLocation, up to networkAllowed)
\* ------------------------------------------------------------------------

Includes(list, x) == \E i \in DOMAIN list : list[i] = x

\* getIpInfo: null when the fetch rejects, answers a non-2xx status or a body
\* that is no JSON; then (info?.asn ?? "") is the empty string
ClientAsn(answer) ==
  LET asnStr == StripAsPrefix(IF answer.kind # "data" \/ answer.asn = Undefined
                              THEN <<>> ELSE answer.asn)
      parsedAsn == NumberOf(asnStr)
  IN IF IsFiniteNumber(parsedAsn) THEN parsedAsn ELSE NaN

\* The earlier verifyLocation: setting_value is taken as it is stored, the
\* list ['*'] stands in when the row is absent (or its value falsy), and the
\* list is consulted only when an address was obtained. includes() on a string
\* value is the substring test.
IsSubstring(str, x) ==
  \E i \in 1..(Len(str) + 1) :
    /\ i + Len(x) - 1 <= Len(str)
    /\ SubSeq(str, i, i + Len(x) - 1) = x

verifyLocationEarlier(rows, currentIp) ==
  LET v == rows.allowed_ips
      star == IF v.kind = "array" THEN Includes(v.items, Wildcard)
              ELSE IF v.kind = "string" /\ Len(v.str) > 0
              THEN IsSubstring(v.str, Wildcard)
              ELSE TRUE
      listed == IF v.kind = "array" THEN Includes(v.items, currentIp)
                ELSE IF v.kind = "string" /\ Len(v.str) > 0
                THEN IsSubstring(v.str, currentIp)
                ELSE FALSE
  IN IF currentIp # Null /\ ~star THEN listed ELSE TRUE

\* verifyLocation giving an absent allowed_ips row no wildcard meaning
verifyLocationNetworkStrictWhenAbsent(rows, currentIp, answer) ==
  LET allowedIps == normalizeStringList(rows.allowed_ips)
      allowedAsns == normalizeAsnSet(rows.allowed_asns)
      allowedCidrs == normalizeStringList(rows.allowed_cidrs)
      ipMatch == currentIp # Null /\ Includes(allowedIps, currentIp)
      cidrMatch == /\ currentIp # Null
                   /\ \E i \in DOMAIN allowedCidrs :
                        cidrContainsIPv4(allowedCidrs[i], currentIp)
      currentAsn == IF currentIp # Null /\ allowedAsns # {}
                    THEN ClientAsn(answer) ELSE NaN
      asnMatch == currentAsn # NaN /\ currentAsn \in allowedAsns
  IN IF Includes(allowedIps, Wildcard) THEN TRUE
     ELSE IF Len(allowedIps) > 0 \/ Len(allowedCidrs) > 0 \/ allowedAsns # {}
     THEN ipMatch \/ cidrMatch \/ asnMatch
     ELSE TRUE

\* networkAllowed of verifyLocation; currentIp is Null when getPublicIp fails
verifyLocationNetwork(rows, currentIp, answer) ==
  LET allowedIps == normalizeStringList(rows.allowed_ips)
      allowedAsns == normalizeAsnSet(rows.allowed_asns)
      allowedCidrs == normalizeStringList(rows.allowed_cidrs)
      hasNoIpSettings == rows.allowed_ips = NoValue \/ Len(allowedIps) = 0
      allowWildcard == Includes(allowedIps, Wildcard) \/ hasNoIpSettings
      hasIpRestriction == Len(allowedIps) > 0 /\ ~allowWildcard
      hasCidrRestriction == Len(allowedCidrs) > 0
      hasAsnRestriction == allowedAsns # {}
      ipMatch == currentIp # Null /\ Includes(allowedIps, currentIp)
      cidrMatch == /\ currentIp # Null
                   /\ \E i \in DOMAIN allowedCidrs :
                        cidrContainsIPv4(allowedCidrs[i], currentIp)
      currentAsn == IF currentIp # Null /\ hasAsnRestriction
                    THEN ClientAsn(answer) ELSE NaN
      asnMatch == currentAsn # NaN /\ currentAsn \in allowedAsns
  IN IF allowWildcard THEN TRUE
     ELSE IF hasIpRestriction \/ hasCidrRestriction \/ hasAsnRestriction
     THEN \/ (hasIpRestriction /\ ipMatch)
          \/ (hasCidrRestriction /\ cidrMatch)
          \/ (hasAsnRestriction /\ asnMatch)
     ELSE TRUE

\* ------------------------------------------------------------------------
\* The browser's geo-fence
\* ------------------------------------------------------------------------

Abs(x) == IF x < 0 THEN 0 - x ELSE x

\* calculateDistance for two points of one meridian, where the haversine
\* formula comes to R * |lat2 - lat1| * PI / 180 with R = 6371e3: 111195 m to
\* the degree. Coordinates are in microdegrees and the distance in millimetres.
MmPerMilliDegree == 111195
calculateDistance(lat1, lon1, lat2, lon2) ==
  (Abs(lat2 - lat1) * MmPerMilliDegree) \div 1000

\* office_location's setting_value, and the default standing in for an absent
\* row
OfficeLocation(lat, lon, radius, enabled) ==
  [kind |-> "object", latitude |-> lat, longitude |-> lon,
   radius_meters |-> radius, enabled |-> enabled]
DefaultOfficeLocation == OfficeLocation(0, 0, 100, FALSE)

\* getCurrentLocation: a fix, or a rejection (no geolocation, permission
\* denied, timeout)
Fix(lat, lon) == [kind |-> "fix", latitude |-> lat, longitude |-> lon]
NoFix == [kind |-> "rejects", latitude |-> 0, longitude |-> 0]

VerifyResult(success, ipAllowed, locationAllowed, error) ==
  [success |-> success, ipAllowed |-> ipAllowed,
   locationAllowed |-> locationAllowed, error |-> error]

\* verifyLocation reporting success on the network decision alone
verifyLocationNetworkOnly(settingsError, rows, location, currentIp, answer, position) ==
  IF settingsError
  THEN VerifyResult(FALSE, FALSE, FALSE, "settings")
  ELSE LET networkAllowed == verifyLocationNetwork(rows, currentIp, answer)
       IN VerifyResult(networkAllowed, networkAllowed, TRUE, "")

\* verifyLocation: settingsError is the error of the office_settings query,
\* location the office_location row's value (NoValue: no such row), position
\* what getCurrentLocation came to
verifyLocation(settingsError, rows, location, currentIp, answer, position) ==
  IF settingsError
  THEN VerifyResult(FALSE, FALSE, FALSE, "settings")
  ELSE LET officeLocation == IF location = NoValue THEN DefaultOfficeLocation
                             ELSE location
           networkAllowed == verifyLocationNetwork(rows, currentIp, answer)
           locationAllowed ==
             IF officeLocation.enabled
             THEN IF position.kind = "fix"
                  THEN calculateDistance(position.latitude, position.longitude,
                                         officeLocation.latitude,
                                         officeLocation.longitude)
                         <= officeLocation.radius_meters * 1000
                  ELSE FALSE
             ELSE TRUE
       IN VerifyResult(networkAllowed /\ locationAllowed, networkAllowed,
                       locationAllowed, "")

\* performLocationVerification: the check-in or check-out is performed on
\* success, a toast shown otherwise
performLocationVerification(result) ==
  IF result.success THEN "perform" ELSE "toast"

\* ------------------------------------------------------------------------
\* Requests and responses
\* ------------------------------------------------------------------------

NoPass == <<>>

\* An HTTP response: the status and the JSON body's fields (pass NoPass and
\* reason "" when the body has no such field). handled = FALSE is the
\* framework's own 500 for an exception no handler caught.
Resp(status, ok, pass, reason) ==
  [status |-> status, ok |-> ok, pass |-> pass, reason |-> reason,
   handled |-> TRUE]
UnhandledResp ==
  [status |-> 500, ok |-> FALSE, pass |-> NoPass, reason |-> "", handled |-> FALSE]
NoResp ==
  [status |-> 0, ok |-> FALSE, pass |-> NoPass, reason |-> "", handled |-> TRUE]

\* The request headers the endpoints read. x-office-pass is the token's
\* segments, NoPass when the header is absent; x-office-gate stands for any
\* further credential header a caller may send.
Headers(cf, xff, xri, pass, gate) ==
  [cf |-> cf, xff |-> xff, xri |-> xri, pass |-> pass, gate |-> gate]

\* req.headers.get("x-office-pass") ?? "": the empty string has one segment
PassHeader(headers) ==
  IF headers.pass = NoPass THEN <<EmptySeg>> ELSE headers.pass

EmptySettings == [allowedASNs |-> {}, allowedCIDRs |-> <<>>]

\* pc: where the request stands ("idle": none, "settings" and "asn": awaiting
\* that answer, "done": answered). net is what requireOfficeNetwork came to,
\* upstream which awaited answer was a failure; verifiedAt and at are the
\* times the pass was verified and the response computed; cause is why the
\* response is no admission.
IdleReq ==
  [pc |-> "idle", endpoint |-> "none", method |-> "GET",
   headers |-> Headers(Undefined, Undefined, Undefined, NoPass, Undefined),
   officeSettings |-> EmptySettings, net |-> NetPending,
   upstream |-> "none", verifiedAt |-> NaN, at |-> NaN,
   resp |-> NoResp, logged |-> "", cause |-> "none"]

\* GateRespond putting the denial's reason in the body, as the handler does
GateRespondLeaky(r, result, secret, nowMs) ==
  IF result.state = "thrown"
  THEN [r EXCEPT !.pc = "done", !.resp = UnhandledResp, !.cause = "error"]
  ELSE IF ~result.ok
  THEN [r EXCEPT !.pc = "done", !.cause = "network", !.logged = result.reason,
                 !.resp = Resp(403, FALSE, NoPass, result.reason)]
  ELSE [r EXCEPT !.pc = "done", !.cause = "none",
                 !.resp = Resp(200, TRUE,
                    signOfficePass([ip |-> result.ip, asn |-> result.asn],
                                   PASS_TTL_SECONDS, secret, nowMs), "")]

\* GET of the admission gate, once requireOfficeNetwork has `result`
GateRespond(r, result, secret, nowMs) ==
  IF result.state = "thrown"
  THEN [r EXCEPT !.pc = "done", !.resp = UnhandledResp, !.cause = "error"]
  ELSE IF ~result.ok
  THEN [r EXCEPT !.pc = "done", !.resp = Resp(403, FALSE, NoPass, ""),
                 !.logged = result.reason, !.cause = "network"]
  ELSE [r EXCEPT !.pc = "done", !.cause = "none",
                 !.resp = Resp(200, TRUE,
                    signOfficePass([ip |-> result.ip, asn |-> result.asn],
                                   PASS_TTL_SECONDS, secret, nowMs), "")]

\* POST of app/api/attendance/checkin/route.ts after the pass verified
RouteRespond(r, result) ==
  IF result.state = "thrown"
  THEN [r EXCEPT !.pc = "done", !.resp = UnhandledResp, !.cause = "error"]
  ELSE IF ~result.ok
  THEN [r EXCEPT !.pc = "done", !.resp = Resp(403, FALSE, NoPass, ""),
                 !.cause = "network"]
  ELSE [r EXCEPT !.pc = "done", !.resp = Resp(200, TRUE, NoPass, ""),
                 !.cause = "none"]

\* handler of api/attendance/checkin.ts after the pass verified
HandlerRespond(r, result) ==
  IF result.state = "thrown"
  THEN [r EXCEPT !.pc = "done", !.cause = "error",
                 !.resp = Resp(500, FALSE, NoPass, result.reason)]
  ELSE IF ~result.ok
  THEN [r EXCEPT !.pc = "done", !.cause = "network",
                 !.resp = Resp(403, FALSE, NoPass, result.reason)]
  ELSE [r EXCEPT !.pc = "done", !.resp = Resp(200, TRUE, NoPass, ""),
                 !.cause = "none"]

\* The endpoint's answer to the network check's result
Respond(r, impl, result, secret, nowMs) ==
  LET q == [r EXCEPT !.at = nowMs, !.net = result] IN
  IF r.endpoint = "gate" THEN GateRespond(q, result, secret, nowMs)
  ELSE IF impl = "route" THEN RouteRespond(q, result)
  ELSE HandlerRespond(q, result)

\* ------------------------------------------------------------------------
\* The settings cache and the network check as a request runs it
\* ------------------------------------------------------------------------

SETTINGS_CACHE_TTL_MS == 30000

\* let settingsCache = null
NoCache == [set |-> FALSE, value |-> EmptySettings, expiresAt |-> 0]

\* fetchOfficeSettings up to its fetch: "hit", the error it throws, or "fetch"
fetchOfficeSettingsStart(e, cache, nowMs) ==
  IF cache.set /\ cache.expiresAt > nowMs THEN "hit"
  ELSE IF ~e.SUPABASE_URL THEN "Server missing SUPABASE_URL"
  ELSE IF ~e.SUPABASE_ANON_KEY THEN "Server missing SUPABASE_ANON_KEY"
  ELSE "fetch"

\* The slot fetchOfficeSettings writes when the rows have arrived
CacheEntry(rows, nowMs) ==
  [set |-> TRUE, value |-> ParseOfficeSettings(rows),
   expiresAt |-> nowMs + SETTINGS_CACHE_TTL_MS]

\* The request once requireOfficeNetwork holds the settings
AfterSettings(r, impl, officeSettings, secret, nowMs) ==
  LET ip == getClientIpFromRequest(r.headers)
      v == requireOfficeNetworkSettings(officeSettings, ip)
      q == [r EXCEPT !.officeSettings = officeSettings]
  IN IF v.state = "pending" THEN [q EXCEPT !.pc = "asn"]
     ELSE Respond(q, impl, v, secret, nowMs)

\* The request from the call of requireOfficeNetwork to its first await
BeginNetwork(r, impl, e, cache, nowMs) ==
  LET s == requireOfficeNetworkStart(e, r.headers)
      f == fetchOfficeSettingsStart(e, cache, nowMs)
  IN IF s.state # "pending" THEN Respond(r, impl, s, SecretOf(e), nowMs)
     ELSE IF f = "hit" THEN AfterSettings(r, impl, cache.value, SecretOf(e), nowMs)
     ELSE IF f = "fetch" THEN [r EXCEPT !.pc = "settings"]
     ELSE Respond(r, impl, NetDenied(f), SecretOf(e), nowMs)

\* BeginGuard trusting a verified pass without the network check
BeginGuardPassOnly(r, impl, e, cache, nowMs) ==
  LET v == verifyOfficePass(PassHeader(r.headers), SecretOf(e), nowMs)
      q == [r EXCEPT !.verifiedAt = nowMs, !.at = nowMs]
  IN IF v = "true"
     THEN [q EXCEPT !.pc = "done", !.resp = Resp(200, TRUE, NoPass, "")]
     ELSE [q EXCEPT !.pc = "done", !.cause = "pass",
                    !.resp = Resp(403, FALSE, NoPass, "")]

\* BeginGuard going on to the network check when no pass was sent
BeginGuardAbsentOk(r, impl, e, cache, nowMs) ==
  LET v == verifyOfficePass(PassHeader(r.headers), SecretOf(e), nowMs)
      q == [r EXCEPT !.verifiedAt = nowMs, !.at = nowMs]
  IN IF v = "true" \/ r.headers.pass = NoPass
     THEN BeginNetwork(q, impl, e, cache, nowMs)
     ELSE [q EXCEPT !.pc = "done", !.cause = "pass",
                    !.resp = Resp(403, FALSE, NoPass, "")]

\* BeginGuard holding the pass to the address it was minted for
BeginGuardBoundToIp(r, impl, e, cache, nowMs) ==
  LET v == verifyOfficePass(PassHeader(r.headers), SecretOf(e), nowMs)
      q == [r EXCEPT !.verifiedAt = nowMs, !.at = nowMs]
  IN IF v = "true" /\ Base64UrlDecode(PassHeader(r.headers)[1])[2].ip =
                        getClientIpFromRequest(r.headers)
     THEN BeginNetwork(q, impl, e, cache, nowMs)
     ELSE [q EXCEPT !.pc = "done", !.cause = "pass",
                    !.resp = Resp(403, FALSE, NoPass, "")]

\* The guard up to the network check: the method (handler only), then the pass
BeginGuard(r, impl, e, cache, nowMs) ==
  LET v == verifyOfficePass(PassHeader(r.headers), SecretOf(e), nowMs)
      q == [r EXCEPT !.verifiedAt = nowMs, !.at = nowMs]
  IN IF impl = "handler" /\ r.method # "POST"
     THEN [r EXCEPT !.pc = "done", !.cause = "method", !.at = nowMs,
                    !.resp = Resp(405, FALSE, NoPass, "Method not allowed")]
     ELSE IF v = "throws"
     THEN [q EXCEPT !.pc = "done", !.cause = "error", !.resp = UnhandledResp]
     ELSE IF v = "false"
     THEN [q EXCEPT !.pc = "done", !.cause = "pass",
                    !.resp = IF impl = "route"
                             THEN Resp(403, FALSE, NoPass, "")
                             ELSE Resp(403, FALSE, NoPass, "Invalid office pass")]
     ELSE BeginNetwork(q, impl, e, cache, nowMs)

\* The guard's response to a request as one function of what its awaits
\* return, the settings being cached
GuardAnswer(impl, e, headers, officeSettings, answer, nowMs) ==
  LET cache == [set |-> TRUE, value |-> officeSettings, expiresAt |-> nowMs + 1]
      r == BeginGuard([IdleReq EXCEPT !.endpoint = "guard", !.method = "POST",
                                      !.headers = headers],
                      impl, e, cache, nowMs)
  IN IF r.pc = "asn"
     THEN Respond(r, impl,
                  requireOfficeNetworkLookup(r.officeSettings,
                      getClientIpFromRequest(headers), answer),
                  SecretOf(e), nowMs).resp
     ELSE r.resp

\* ------------------------------------------------------------------------
\* The browser: useOfficePass and the check-in / check-out actions
\* ------------------------------------------------------------------------

PASS_TTL_MS == 110000

\* passRef.current = null
NoPassRef == [set |-> FALSE, value |-> NoPass, expiresAt |-> 0]

\* passRef, status and pass are the hook's; the rest is the running action:
\* pc is where it stands ("idle": none runs, "toGate" and "toGuard": its
\* request is on the way, "atGate" and "atGuard": the server has it, "write":
\* the guard let it through), action is "check" (checkOfficePass on its
\* own), "checkin" or "checkout"; sent is the pass it presents, fromHeld
\* whether getValidPass took it from passRef, guardStatus the guard's answer,
\* wrote whether it wrote the attendance record. mintedAt and presentedAt are
\* the times the held pass was minted and the presented pass was handed out.
IdleClient ==
  [passRef |-> NoPassRef, status |-> "idle", pass |-> NoPass,
   pc |-> "idle", action |-> "none", sent |-> NoPass, fromHeld |-> FALSE,
   guardStatus |-> 0, wrote |-> FALSE, mintedAt |-> 0, presentedAt |-> 0]

\* response.ok
IsOkStatus(status) == status >= 200 /\ status <= 299

\* performCheckIn / performCheckOut once getValidPass has returned `pass`
performAfterPass(c, pass, nowMs) ==
  IF c.action = "check" \/ pass = NoPass
  THEN [c EXCEPT !.pc = "idle"]
  ELSE [c EXCEPT !.pc = "toGuard", !.sent = pass, !.presentedAt = nowMs]

\* checkOfficePass up to its fetch
checkOfficePassStart(c) ==
  [c EXCEPT !.status = "checking", !.pc = "toGate"]

\* checkOfficePassDone keeping the held pass when the request fails
checkOfficePassDoneKeep(c, fetched, resp, mintedAt, nowMs) ==
  IF fetched /\ IsOkStatus(resp.status) /\ resp.pass # NoPass
  THEN performAfterPass(
         [c EXCEPT !.passRef = [set |-> TRUE, value |-> resp.pass,
                                expiresAt |-> nowMs + PASS_TTL_MS],
                   !.status = "allowed", !.pass = resp.pass,
                   !.mintedAt = mintedAt],
         resp.pass, nowMs)
  ELSE performAfterPass([c EXCEPT !.status = "blocked"], NoPass, nowMs)

\* checkOfficePass from the answer of its fetch (fetched = FALSE: the fetch
\* rejected), and the action that awaited it
checkOfficePassDone(c, fetched, resp, mintedAt, nowMs) ==
  IF fetched /\ IsOkStatus(resp.status) /\ resp.pass # NoPass
  THEN performAfterPass(
         [c EXCEPT !.passRef = [set |-> TRUE, value |-> resp.pass,
                                expiresAt |-> nowMs + PASS_TTL_MS],
                   !.status = "allowed", !.pass = resp.pass,
                   !.mintedAt = mintedAt],
         resp.pass, nowMs)
  ELSE performAfterPass(
         [c EXCEPT !.passRef = NoPassRef, !.status = "blocked",
                   !.pass = NoPass],
         NoPass, nowMs)

\* getValidPass handing out the held pass however old it is
getValidPassNoExpiry(c, nowMs) ==
  IF c.passRef.set
  THEN performAfterPass([c EXCEPT !.fromHeld = TRUE], c.passRef.value, nowMs)
  ELSE checkOfficePassStart(c)

getValidPass(c, nowMs) ==
  IF c.passRef.set /\ c.passRef.expiresAt > nowMs
  THEN performAfterPass([c EXCEPT !.fromHeld = TRUE], c.passRef.value, nowMs)
  ELSE checkOfficePassStart(c)

\* resetOfficePass resetting the exposed state alone
resetOfficePassStateOnly(c) ==
  [c EXCEPT !.status = "idle", !.pass = NoPass]

resetOfficePass(c) ==
  [c EXCEPT !.passRef = NoPassRef, !.status = "idle", !.pass = NoPass]

\* An action begins: checkOfficePass on its own, or performCheckIn /
\* performCheckOut up to the first await that leaves the browser
performStart(c, action, nowMs) ==
  LET d == [c EXCEPT !.action = action, !.sent = NoPass, !.fromHeld = FALSE,
                     !.guardStatus = 0, !.wrote = FALSE, !.presentedAt = 0]
  IN IF action = "check" THEN checkOfficePassStart(d) ELSE getValidPass(d, nowMs)

\* performAfterGuard going on to the write whatever the guard answered
performAfterGuardAnyStatus(c, fetched, resp) ==
  IF fetched
  THEN [c EXCEPT !.guardStatus = resp.status, !.pc = "write"]
  ELSE [c EXCEPT !.pc = "idle"]

\* performCheckIn / performCheckOut from the answer of the guard's fetch
performAfterGuard(c, fetched, resp) ==
  IF fetched /\ IsOkStatus(resp.status)
  THEN [c EXCEPT !.guardStatus = resp.status, !.pc = "write"]
  ELSE IF fetched
  THEN [c EXCEPT !.guardStatus = resp.status, !.pc = "idle"]
  ELSE [c EXCEPT !.pc = "idle"]

\* supabase.from("attendance_records").upsert / update
performWrite(c) == [c EXCEPT !.wrote = TRUE, !.pc = "idle"]

\* ------------------------------------------------------------------------
\* fetchOfficeSettings called by requests that run side by side
\* ------------------------------------------------------------------------

MaxCallers == 2

Callers == 1..MaxCallers

\* A call of fetchOfficeSettings. pc: "idle" (not called), "sent" (its fetch
\* is on the way), "read" (the store has answered, the answer is on the
\* way), "ok" (returned), "failed" (threw). calledAt, readAt and doneAt are
\* the times of the call, of the store's read and of the return; fresh tells
\* whether the slot held an unexpired value at the call, hit whether the
\* call returned the slot's value, fetches how many fetches it made, rows
\* and answer what the store answered, value what the call returned, wrote
\* the slot it wrote, error the message it threw.
IdleCall ==
  [pc |-> "idle", calledAt |-> 0, fresh |-> FALSE, hit |-> FALSE,
   fetches |-> 0, rows |-> Settings(NoValue, NoValue, NoValue),
   answer |-> "rows", readAt |-> 0, doneAt |-> 0, value |-> EmptySettings,
   wrote |-> NoCache, error |-> ""]

\* call: the calls; readAt: when the slot's value was read from the store;
\* overwrote: when the value that the last write replaced had been read
\* (NaN: the slot was empty)
NoFetching ==
  [call |-> [i \in Callers |-> IdleCall], readAt |-> 0, overwrote |-> NaN]

\* fetchOfficeSettings from its call to its first await, or to its return
fetchOfficeSettingsCall(c, e, cache, cacheReadAt, nowMs) ==
  LET f == fetchOfficeSettingsStart(e, cache, nowMs)
      d == [IdleCall EXCEPT !.calledAt = nowMs, !.doneAt = nowMs,
                            !.fresh = cache.set /\ cache.expiresAt > nowMs]
  IN IF f = "hit"
     THEN [d EXCEPT !.pc = "ok", !.hit = TRUE, !.value = cache.value,
                    !.readAt = cacheReadAt]
     ELSE IF f = "fetch"
     THEN [d EXCEPT !.pc = "sent", !.fetches = 1]
     ELSE [d EXCEPT !.pc = "failed", !.error = f]

\* fetchOfficeSettingsReturn keeping the slot's old expiry
fetchOfficeSettingsReturnNoRenewal(c, cache, nowMs) ==
  IF c.answer = "rows"
  THEN [c EXCEPT !.pc = "ok", !.doneAt = nowMs,
                 !.value = ParseOfficeSettings(c.rows),
                 !.wrote = [CacheEntry(c.rows, nowMs) EXCEPT
                              !.expiresAt = cache.expiresAt]]
  ELSE [c EXCEPT !.pc = "failed", !.doneAt = nowMs,
                 !.error = IF c.answer = "notok"
                           THEN "Supabase settings fetch failed"
                           ELSE "fetch failed"]

\* fetchOfficeSettings from the answer of its fetch to its return
fetchOfficeSettingsReturn(c, cache, nowMs) ==
  IF c.answer = "rows"
  THEN [c EXCEPT !.pc = "ok", !.doneAt = nowMs,
                 !.value = ParseOfficeSettings(c.rows),
                 !.wrote = CacheEntry(c.rows, nowMs)]
  ELSE [c EXCEPT !.pc = "failed", !.doneAt = nowMs,
                 !.error = IF c.answer = "notok"
                           THEN "Supabase settings fetch failed"
                           ELSE "fetch failed"]

\* ------------------------------------------------------------------------
\* State
\* ------------------------------------------------------------------------

\* ------------------------------------------------------------------------
\* Calls of checkOfficePass side by side
\* ------------------------------------------------------------------------

MaxCheckers == 2
Checkers == 1..MaxCheckers

\* One call of checkOfficePass: pc is "idle" (none runs), "flying" (its fetch
\* is out) or "answered" (the gate has answered, the answer is on its way);
\* resp and mintedAt are the gate's answer and when it was made, result the
\* pass the call returned when it last completed (NoPass for null).
IdleCheck == [pc |-> "idle", resp |-> NoResp, mintedAt |-> 0, result |-> NoPass]

\* lastStarted is the call started last (0: none yet); reset is "none" until
\* resetOfficePass runs, "clean" from then until a call is started, and
\* "restarted" after that.
NoChecks ==
  [call |-> [i \in Checkers |-> IdleCheck], lastStarted |-> 0, reset |-> "none"]

\* Where one action stands has no meaning once calls run side by side: only
\* the hook's own fields (passRef, status, pass) are followed
HookFields(c) == [c EXCEPT !.pc = "idle", !.fromHeld = FALSE]

\* The admission gate's answers: a pass minted at nowMs, or 403
GateAnswers(nowMs) ==
  { Resp(200, TRUE,
         signOfficePass([ip |-> IpInside, asn |-> 0], PASS_TTL_SECONDS,
                        SecretValue, nowMs), ""),
    Resp(403, FALSE, NoPass, "") }


\* ------------------------------------------------------------------------
\* The administrator's office-settings dialog
\* ------------------------------------------------------------------------

AsPrefix == <<"A", "S">>

\* The dialog's normalizeAsnList: the digits of each entry, entries without
\* digits dropped, "AS" put in front
normalizeAsnList(value) ==
  LET strs == normalizeStringList(value)
      digits == FilterNonEmpty([i \in DOMAIN strs |-> StripNonDigits(strs[i])])
  IN [i \in DOMAIN digits |-> AsPrefix \o digits[i]]

\* list.filter((i) => i !== x)
Without(list, x) == SelectSeq(list, LAMBDA e : e # x)

\* parseFloat(text) || dflt and parseInt(text) || dflt for texts of decimal
\* digits: no number and 0 both give dflt
ParseOr(text, dflt) ==
  IF text = <<>> \/ \E i \in 1..Len(text) : ~IsDigit(text[i]) THEN dflt
  ELSE IF DecValue(text, 0) = 0 THEN dflt
  ELSE DecValue(text, 0)

\* Number.prototype.toString() of a natural number
NumberText(n) ==
  LET RECURSIVE Dec(_)
      Dec(k) == IF k < 10 THEN <<Digits[k + 1]>>
                ELSE Append(Dec(k \div 10), Digits[(k % 10) + 1])
  IN Dec(n)

\* The rows of office_settings the dialog reads and writes
SettingKeys == {"allowed_ips", "allowed_asns", "allowed_cidrs", "office_location"}
NoRows == [k \in SettingKeys |-> NoValue]

\* The component's state as useState initialises it, and saved: the rows of
\* office_settings
ClosedDialog ==
  [open |-> FALSE, allowedIps |-> <<Wildcard>>, newIp |-> <<>>,
   allowedAsns |-> <<>>, newAsn |-> <<>>, allowedCidrs |-> <<>>,
   newCidr |-> <<>>, locationEnabled |-> FALSE, latitude |-> <<>>,
   longitude |-> <<>>, radius |-> <<"1", "0", "0">>, saved |-> NoRows]

\* fetchSettings: ok = FALSE is a failed query, which leaves the state as it is
fetchSettings(d, ok) ==
  IF ~ok THEN d
  ELSE LET rows == d.saved
           parsedIps == normalizeStringList(rows["allowed_ips"])
           loc == rows["office_location"]
       IN [d EXCEPT
             !.allowedIps = IF rows["allowed_ips"] = NoValue THEN @
                            ELSE IF Len(parsedIps) > 0 THEN parsedIps
                            ELSE <<Wildcard>>,
             !.allowedAsns = IF rows["allowed_asns"] = NoValue THEN @
                             ELSE normalizeAsnList(rows["allowed_asns"]),
             !.allowedCidrs = IF rows["allowed_cidrs"] = NoValue THEN @
                              ELSE normalizeStringList(rows["allowed_cidrs"]),
             !.locationEnabled = IF loc = NoValue THEN @ ELSE loc.enabled,
             !.latitude = IF loc = NoValue THEN @ ELSE NumberText(loc.latitude),
             !.longitude = IF loc = NoValue THEN @ ELSE NumberText(loc.longitude),
             !.radius = IF loc = NoValue THEN @
                        ELSE NumberText(loc.radius_meters)]

handleAddIp(d) ==
  LET ip == Trim(d.newIp) IN
  IF ip = <<>> THEN d
  ELSE IF Includes(d.allowedIps, ip) THEN d
  ELSE [d EXCEPT !.allowedIps = Append(Without(@, Wildcard), ip),
                 !.newIp = <<>>]

handleRemoveIp(d, ip) ==
  LET updatedIps == Without(d.allowedIps, ip)
  IN [d EXCEPT !.allowedIps = IF Len(updatedIps) = 0 THEN <<Wildcard>>
                              ELSE updatedIps]

handleAllowAll(d) == [d EXCEPT !.allowedIps = <<Wildcard>>]

\* handleSubmit: succeeded are the rows whose upsert succeeds, fetchOk whether
\* the fetchSettings that follows a full success does
handleSubmit(d, succeeded, fetchOk) ==
  LET pendingAsnDigits == StripNonDigits(d.newAsn)
      pendingAsn == IF pendingAsnDigits # <<>> THEN AsPrefix \o pendingAsnDigits
                    ELSE <<>>
      combinedAsns == IF pendingAsn # <<>> /\ ~Includes(d.allowedAsns, pendingAsn)
                      THEN Append(d.allowedAsns, pendingAsn)
                      ELSE d.allowedAsns
      pendingCidr == Trim(d.newCidr)
      combinedCidrs == IF pendingCidr # <<>> /\ ~Includes(d.allowedCidrs, pendingCidr)
                       THEN Append(d.allowedCidrs, pendingCidr)
                       ELSE d.allowedCidrs
      normalizedIps == normalizeStringList(ArrayValue(d.allowedIps))
      safeIps == IF Len(normalizedIps) > 0 THEN normalizedIps ELSE <<Wildcard>>
      normalizedAsns == normalizeAsnList(ArrayValue(combinedAsns))
      normalizedCidrs == normalizeStringList(ArrayValue(combinedCidrs))
      locationValue == OfficeLocation(ParseOr(d.latitude, 0),
                                      ParseOr(d.longitude, 0),
                                      ParseOr(d.radius, 100), d.locationEnabled)
      payload == [k \in SettingKeys |->
                    IF k = "allowed_ips" THEN ArrayValue(safeIps)
                    ELSE IF k = "allowed_asns" THEN ArrayValue(normalizedAsns)
                    ELSE IF k = "allowed_cidrs" THEN ArrayValue(normalizedCidrs)
                    ELSE locationValue]
      set == [d EXCEPT !.allowedIps = safeIps, !.allowedAsns = normalizedAsns,
                       !.allowedCidrs = normalizedCidrs, !.newAsn = <<>>,
                       !.newCidr = <<>>,
                       !.saved = [k \in SettingKeys |->
                                    IF k \in succeeded THEN payload[k]
                                    ELSE d.saved[k]]]
  IN IF succeeded = SettingKeys
     THEN [fetchSettings(set, fetchOk) EXCEPT !.open = FALSE]
     ELSE set


VARIABLES
  now,              \* Date.now(), in milliseconds
  ticks,            \* how often the clock has advanced
  env,              \* process.env, fixed for a run
  guardImpl,        \* which checkin guard is deployed: "route" or "handler"
  store,            \* the rows of office_settings
  settingsCache,    \* the module-level cache slot
  req,              \* the request being served, with its locals
  held,             \* the pass the client holds (NoPass: none)
  passReject,       \* history: the guard's last answer to an invalid pass
  expiredRejected,  \* history: the passes the guard rejected for expiry
  client,           \* the browser: the useOfficePass hook and the running action
  fetching,         \* the calls of fetchOfficeSettings that run side by side
  checks,           \* the calls of checkOfficePass that run side by side
  dialog,           \* the administrator's office-settings dialog
  probe             \* a function applied to drawn inputs, with its results

vars == <<now, ticks, env, guardImpl, store, settingsCache, req, held,
          passReject, expiredRejected, client, fetching, checks, dialog, probe>>

served == <<now, ticks, env, guardImpl, store, settingsCache, req, held,
            passReject, expiredRejected, client, fetching, checks, dialog>>

MaxTicks == 2

\* The steps the clock takes: half a second, and a pass's lifetime and a half
\* second (so that a pass is met in the last second of its life and after it)
ClockSteps == {500, 1000 * PASS_TTL_SECONDS + 500}

\* ------------------------------------------------------------------------
\* What callers send
\* ------------------------------------------------------------------------

GateCredential == <<"g">>

HeaderChoices(pass) ==
  { Headers(IpInside, Undefined, Undefined, pass, GateCredential),
    Headers(IpInside, Undefined, Undefined, pass, Undefined),
    Headers(IpOutside, Undefined, Undefined, pass, GateCredential),
    Headers(Undefined, Undefined, Undefined, pass, GateCredential) }

\* A segment whose text was altered in a way that decodes alike
AlterSeg(seg) == [seg EXCEPT !.extra = 1 - seg.extra]

\* A pass a caller signs itself, with the key it can guess: the empty one
SelfSigned(nowMs) ==
  LET body == JsonText([ip |-> IpOutside, asn |-> 0,
                        exp |-> (nowMs \div 1000) + PASS_TTL_SECONDS])
  IN <<Seg(body), Seg(Hmac(SECRET_UNSET, body))>>

\* A self-signed pass whose body is the JSON text null
SelfSignedNull == <<Seg(JsonNullText), Seg(Hmac(SECRET_UNSET, JsonNullText))>>

\* The x-office-pass values a caller presents: none, the pass it holds, that
\* pass with its signature altered, and the self-signed ones
PassChoices(h, nowMs) ==
  {NoPass, SelfSigned(nowMs), SelfSignedNull}
    \cup (IF h = NoPass THEN {} ELSE {h, <<h[1], AlterSeg(h[2])>>})

\* The pass is correctly signed, carries an exp, and the exp has elapsed
ExpiredAt(token, secret, nowMs) ==
  /\ Len(token) >= 2
  /\ token[1] # EmptySeg
  /\ token[2] = Seg(Hmac(secret, Base64UrlDecode(token[1])))
  /\ Len(Base64UrlDecode(token[1])) = 2
  /\ Base64UrlDecode(token[1])[2].exp > 0
  /\ (nowMs \div 1000) > Base64UrlDecode(token[1])[2].exp

\* No function applied yet
NoProbe == [kind |-> "none"]

\* ------------------------------------------------------------------------
\* Actions
\* ------------------------------------------------------------------------

Init ==
  /\ now = 0
  /\ ticks = 0
  /\ env \in EnvChoices
  /\ guardImpl \in {"route", "handler"}
  /\ store \in ServedStoreChoices
  /\ settingsCache = NoCache
  /\ req = IdleReq
  /\ held = NoPass
  /\ passReject = NoResp
  /\ expiredRejected = {}
  /\ client = IdleClient
  /\ fetching = NoFetching
  /\ checks = NoChecks
  /\ dialog = ClosedDialog
  /\ probe = NoProbe

\* Time passes (a computed response is sent in the turn that computed it)
Tick ==
  /\ req.pc # "done"
  /\ ticks < MaxTicks
  /\ \E d \in ClockSteps : now' = now + d
  /\ ticks' = ticks + 1
  /\ UNCHANGED <<env, guardImpl, store, settingsCache, req, held, passReject,
                 expiredRejected, client, fetching, checks, dialog, probe>>

\* An administrator rewrites the office_settings rows
AdminUpdate ==
  /\ req.pc # "done"
  /\ \E rows \in ServedStoreChoices : rows # store /\ store' = rows
  /\ UNCHANGED <<now, ticks, env, guardImpl, settingsCache, req, held,
                 passReject, expiredRejected, client, fetching, checks, dialog, probe>>

\* GET /api/attendance/check arrives
GateRequest ==
  /\ req.pc = "idle"
  /\ \E h \in HeaderChoices(NoPass) :
       req' = BeginNetwork([IdleReq EXCEPT !.endpoint = "gate", !.headers = h],
                           guardImpl, env, settingsCache, now)
  /\ UNCHANGED <<now, ticks, env, guardImpl, store, settingsCache, held,
                 passReject, expiredRejected, client, fetching, checks, dialog, probe>>

\* POST /api/attendance/checkin arrives (the handler is also reached by GET)
GuardRequest ==
  /\ req.pc = "idle"
  /\ \E p \in PassChoices(held, now), m \in {"POST", "GET"} :
     \E h \in HeaderChoices(p) :
       /\ m = "GET" => guardImpl = "handler"
       /\ req' = BeginGuard([IdleReq EXCEPT !.endpoint = "guard", !.method = m,
                                            !.headers = h],
                            guardImpl, env, settingsCache, now)
       /\ passReject' = IF req'.cause = "pass" THEN req'.resp ELSE passReject
       /\ expiredRejected' =
            IF req'.cause = "pass" /\ ExpiredAt(p, SecretOf(env), now)
            THEN expiredRejected \cup {p} ELSE expiredRejected
  /\ UNCHANGED <<now, ticks, env, guardImpl, store, settingsCache, held,
                 client, fetching, checks, dialog, probe>>

\* SettingsAnswer falling back on the slot's expired value when the fetch fails
SettingsAnswerStale ==
  /\ req.pc = "settings"
  /\ \E a \in StoreAnswers :
       IF a = "rows"
       THEN /\ settingsCache' = CacheEntry(store, now)
            /\ req' = AfterSettings(req, guardImpl, settingsCache'.value,
                                    SecretOf(env), now)
       ELSE /\ settingsCache' = settingsCache
            /\ req' = AfterSettings([req EXCEPT !.upstream = "settings"],
                                    guardImpl, settingsCache.value,
                                    SecretOf(env), now)
  /\ UNCHANGED <<now, ticks, env, guardImpl, store, held, passReject,
                 expiredRejected, client, fetching, checks, dialog, probe>>

\* The settings store answers the fetch of fetchOfficeSettings
SettingsAnswer ==
  /\ req.pc = "settings"
  /\ \E a \in StoreAnswers :
       IF a = "rows"
       THEN /\ settingsCache' = CacheEntry(store, now)
            /\ req' = AfterSettings(req, guardImpl, settingsCache'.value,
                                    SecretOf(env), now)
       ELSE /\ settingsCache' = settingsCache
            /\ req' = Respond([req EXCEPT !.upstream = "settings"], guardImpl,
                          NetDenied(IF a = "notok"
                                    THEN "Supabase settings fetch failed"
                                    ELSE "fetch failed"),
                          SecretOf(env), now)
  /\ UNCHANGED <<now, ticks, env, guardImpl, store, held, passReject,
                 expiredRejected, client, fetching, checks, dialog, probe>>

\* The ASN lookup answers the fetch of requireOfficeNetwork
LookupAnswer ==
  /\ req.pc = "asn"
  /\ \E a \in LookupAnswers :
       req' = Respond([req EXCEPT !.upstream =
                          IF a.kind = "data" /\ a.asn # Undefined
                          THEN "none" ELSE "lookup"],
                guardImpl,
                requireOfficeNetworkLookup(req.officeSettings,
                    getClientIpFromRequest(req.headers), a),
                SecretOf(env), now)
  /\ UNCHANGED <<now, ticks, env, guardImpl, store, settingsCache, held,
                 passReject, expiredRejected, client, fetching, checks, dialog, probe>>

\* The response reaches the caller, who keeps the pass of an admission
Deliver ==
  /\ req.pc = "done"
  /\ req' = IdleReq
  /\ held' = IF req.resp.pass # NoPass THEN req.resp.pass ELSE held
  /\ UNCHANGED <<now, ticks, env, guardImpl, store, settingsCache,
                 passReject, expiredRejected, client, fetching, checks, dialog, probe>>

Next ==
  \/ Tick
  \/ AdminUpdate
  \/ GateRequest
  \/ GuardRequest
  \/ SettingsAnswer
  \/ LookupAnswer
  \/ Deliver

Spec == Init /\ [][Next]_vars

\* ------------------------------------------------------------------------
\* The pure functions, applied to drawn inputs
\* ------------------------------------------------------------------------

FullEnv == Env(SecretValue, TRUE, TRUE, TRUE)

ProbeIps == {IpInside, IpOutside, Null}

\* The network decision of the server and of the client for the same rows,
\* address and lookup answer
ProbeNetwork ==
  /\ probe.kind = "none"
  /\ \E rows \in StoreChoices, ip \in ProbeIps, a \in LookupAnswers :
       probe' =
         [kind |-> "network", rows |-> rows, ip |-> ip, answer |-> a,
          server |-> requireOfficeNetwork(FullEnv,
                       Headers(IF ip = Null THEN Undefined ELSE ip, Undefined,
                               Undefined, NoPass, Undefined),
                       ParseOfficeSettings(rows), a),
          client |-> verifyLocationNetwork(rows, ip, a),
          earlier |-> verifyLocationEarlier(rows, ip)]
  /\ UNCHANGED served

OtherKey == <<"o">>

ProbeExps == {NoExp, 0, PASS_TTL_SECONDS}

ProbeBodies ==
  {JsonText([ip |-> IpInside, asn |-> 0, exp |-> x]) : x \in ProbeExps}
    \cup {JsonNullText, NotJsonText}

ProbeKeys == {SecretValue, SECRET_UNSET, OtherKey}

\* Body and signature segments, well-formed and not
ProbeBodySegs == {Seg(b) : b \in ProbeBodies} \cup {EmptySeg}

ProbeSigSegs ==
  {Seg(Hmac(k, b)) : k \in ProbeKeys, b \in ProbeBodies} \cup {EmptySeg}

ProbeTokens ==
  {<<>>}
    \cup {<<b>> : b \in ProbeBodySegs}
    \cup {<<b, g>> : b \in ProbeBodySegs, g \in ProbeSigSegs}
    \cup {<<AlterSeg(b), g>> : b \in ProbeBodySegs, g \in ProbeSigSegs}
    \cup {<<b, AlterSeg(g)>> : b \in ProbeBodySegs, g \in ProbeSigSegs}
    \cup {<<b, g, EmptySeg>> : b \in ProbeBodySegs, g \in ProbeSigSegs}

ProbeTimes ==
  {0, 1000 * PASS_TTL_SECONDS, 1000 * PASS_TTL_SECONDS + 999,
   1000 * PASS_TTL_SECONDS + 1000}

\* verifyOfficePass on a token, under a secret, at a time
ProbeVerify ==
  /\ probe.kind = "none"
  /\ \E t \in ProbeTokens, k \in {SecretValue, SECRET_UNSET}, n \in ProbeTimes :
       probe' = [kind |-> "verify", token |-> t, secret |-> k, nowMs |-> n,
                 result |-> verifyOfficePass(t, k, n)]
  /\ UNCHANGED served

\* The claims a pass may carry
ProbeClaims ==
  {[ip |-> i, asn |-> a] : i \in {IpInside, IpOutside}, a \in {0, 15169}}

ProbeGuardTimes == {0, 1000 * PASS_TTL_SECONDS + 1000}

\* The guard's answers to one request presented with two passes, minted at
\* time 0 under the server's secret, that differ in their claims only
ProbeGuardPair ==
  /\ probe.kind = "none"
  /\ \E c1 \in ProbeClaims, c2 \in ProbeClaims, ip \in ProbeIps,
        rows \in StoreChoices, a \in LookupAnswers,
        impl \in {"route", "handler"}, n \in ProbeGuardTimes :
       /\ c1 # c2
       /\ probe' =
            [kind |-> "guardpair", first |-> c1, second |-> c2, ip |-> ip,
             rows |-> rows, answer |-> a, impl |-> impl, nowMs |-> n,
             resp1 |-> GuardAnswer(impl, FullEnv,
                         Headers(IF ip = Null THEN Undefined ELSE ip, Undefined,
                                 Undefined,
                                 signOfficePass(c1, PASS_TTL_SECONDS,
                                                SecretValue, 0),
                                 Undefined),
                         ParseOfficeSettings(rows), a, n),
             resp2 |-> GuardAnswer(impl, FullEnv,
                         Headers(IF ip = Null THEN Undefined ELSE ip, Undefined,
                                 Undefined,
                                 signOfficePass(c2, PASS_TTL_SECONDS,
                                                SecretValue, 0),
                                 Undefined),
                         ParseOfficeSettings(rows), a, n)]
  /\ UNCHANGED served

PaddedIp == <<" ">> \o IpInside \o <<" ">>
ForwardedList == IpInside \o <<",", " ">> \o IpOutside
ForwardedEmptyFirst == <<",">> \o IpOutside
Blank == <<" ", " ">>

\* The values a header of the request may have
ProbeHeaderValues ==
  {Undefined, <<>>, Blank, PaddedIp, IpOutside, ForwardedList,
   ForwardedEmptyFirst}

\* getClientIpFromRequest, and the start of the network check, on the three
\* headers
ProbeClientIp ==
  /\ probe.kind = "none"
  /\ \E cf \in ProbeHeaderValues, xff \in ProbeHeaderValues,
        xri \in ProbeHeaderValues :
       probe' =
         [kind |-> "clientip", cf |-> cf, xff |-> xff, xri |-> xri,
          ip |-> getClientIpFromRequest(
                   Headers(cf, xff, xri, NoPass, Undefined)),
          net |-> requireOfficeNetworkStart(FullEnv,
                   Headers(cf, xff, xri, NoPass, Undefined))]
  /\ UNCHANGED served

\* The decimal text of a number, of an address and of a CIDR
RECURSIVE DecText(_)
DecText(n) ==
  IF n < 10 THEN <<Digits[n + 1]>>
  ELSE Append(DecText(n \div 10), Digits[(n % 10) + 1])

IpText(o) ==
  DecText(o[1]) \o <<".">> \o DecText(o[2]) \o <<".">> \o DecText(o[3])
    \o <<".">> \o DecText(o[4])

CidrText(o, bits) == IpText(o) \o <<"/">> \o DecText(bits)

ProbeNets ==
  {<<203, 0, 113, 0>>, <<203, 0, 113, 42>>, <<10, 0, 0, 0>>, <<128, 0, 0, 0>>,
   <<0, 0, 0, 0>>, <<255, 255, 255, 255>>}

ProbeAddrs ==
  {<<203, 0, 113, 42>>, <<203, 0, 114, 1>>, <<10, 255, 0, 1>>,
   <<75, 0, 113, 42>>, <<203, 0, 113, 43>>, <<0, 0, 0, 0>>,
   <<255, 255, 255, 255>>}

\* cidrContainsIPv4 on a well-formed CIDR and address
ProbeCidr ==
  /\ probe.kind = "none"
  /\ \E net \in ProbeNets, bits \in 0..32, addr \in ProbeAddrs :
       probe' = [kind |-> "cidr", net |-> net, bits |-> bits, addr |-> addr,
                 result |-> cidrContainsIPv4(CidrText(net, bits), IpText(addr))]
  /\ UNCHANGED served

\* CIDR entries that are no CIDR: the prefix missing, empty, no number, not
\* an integer, out of range; the network short of an octet, with an octet
\* out of range, with an empty octet, with an octet that is no number
MalformedCidrs ==
  { IpText(<<203, 0, 113, 0>>),
    IpText(<<203, 0, 113, 0>>) \o <<"/">>,
    IpText(<<203, 0, 113, 0>>) \o <<"/", "2", "x">>,
    IpText(<<203, 0, 113, 0>>) \o <<"/", "2", "4", ".", "5">>,
    CidrText(<<203, 0, 113, 0>>, 33),
    <<"2","0","3",".","0",".","1","1","3","/","2","4">>,
    <<"2","0","3",".","0",".","2","5","6",".","0","/","1","6">>,
    <<"2","0","3",".",".","1","1","3",".","0","/","2","4">>,
    <<"2","0","3",".","0",".","x",".","0","/","1","6">> }

\* Addresses that are none
MalformedIps ==
  { <<"2","0","3",".","0",".","1","1","3">>,
    <<"2","0","3",".","0",".","1","1","3",".","4","2","0">>,
    <<"2","0","3",".","0",".","x",".","4","2">> }

\* ipAllowedByCidrs on a list with a malformed entry, alone or beside a
\* well-formed one, and cidrContainsIPv4 on a malformed address
ProbeCidrList ==
  /\ probe.kind = "none"
  /\ \E bad \in MalformedCidrs \cup {CidrOffice},
        other \in {<<>>, <<CidrOffice>>, <<CidrOther>>},
        first \in BOOLEAN,
        ip \in {IpInside, IpOutside} \cup MalformedIps :
       probe' = [kind |-> "cidrlist", entry |-> bad, other |-> other, ip |-> ip,
                 alone |-> cidrContainsIPv4(bad, ip),
                 rest |-> other # <<>> /\ cidrContainsIPv4(other[1], ip),
                 result |-> ipAllowedByCidrs(
                              IF first THEN <<bad>> \o other
                              ELSE other \o <<bad>>, ip)]
  /\ UNCHANGED served

AsnEntries ==
  { <<"A","S","1","5","1","6","9">>, <<"a","s","1","5","1","6","9">>,
    <<"1","5","1","6","9">>, <<" ","1","5","1","6","9"," ">>,
    <<"A","S","x","y","z">>, <<"A","S","6","4","5","0","0">> }

\* The JSON text of an array: its first character is all that is looked at
\* before it is parsed
ArrayText == <<"[", ".", ".", ".", "]">>

\* The allowed_asns setting's forms: a native array, one entry as a plain
\* string, or the JSON text of an array
ProbeAsnValues ==
  {ArrayValue(<<e>>) : e \in AsnEntries}
    \cup {ArrayValue(<<e, f>>) : e \in AsnEntries, f \in AsnEntries}
    \cup {StringValue(e, Undefined) : e \in AsnEntries}
    \cup {StringValue(ArrayText, <<e, f>>) : e \in AsnEntries, f \in AsnEntries}

\* The normalisation of allowed_asns
ProbeAsn ==
  /\ probe.kind = "none"
  /\ \E v \in ProbeAsnValues :
       probe' = [kind |-> "asn", value |-> v, strs |-> normalizeStringList(v),
                 result |-> normalizeAsnSet(v)]
  /\ UNCHANGED served

\* The office at 23.780000 N 90.400000 E; fixes on its meridian at the office,
\* 899 microdegrees north and 900 south of it (99.96 m and 100.08 m) and 1.1 km
\* away
Office == [latitude |-> 23780000, longitude |-> 90400000]
OfficeLat == Office.latitude
OfficeLon == Office.longitude
ProbeLocations ==
  { NoValue,
    OfficeLocation(OfficeLat, OfficeLon, 100, FALSE),
    OfficeLocation(OfficeLat, OfficeLon, 100, TRUE),
    OfficeLocation(OfficeLat, OfficeLon, 0, TRUE) }
ProbePositions ==
  { NoFix, Fix(OfficeLat, OfficeLon), Fix(OfficeLat + 899, OfficeLon),
    Fix(OfficeLat - 900, OfficeLon), Fix(OfficeLat + 10000, OfficeLon) }
ProbeLocationRows ==
  { Settings(NoValue, NoValue, NoValue),
    Settings(ArrayValue(<<IpInside>>), ArrayValue(<<>>), ArrayValue(<<>>)),
    Settings(ArrayValue(<<IpInside>>), ArrayValue(<<AsnOther>>),
             ArrayValue(<<CidrOther>>)) }

ProbeLocation ==
  /\ probe.kind = "none"
  /\ \E failed \in BOOLEAN, rows \in ProbeLocationRows,
        location \in ProbeLocations, ip \in ProbeIps,
        a \in {LookupThrows, LookupData(AsnOther)}, position \in ProbePositions :
       LET result == verifyLocation(failed, rows, location, ip, a, position)
       IN probe' =
            [kind |-> "location", settingsError |-> failed, rows |-> rows,
             location |-> location, ip |-> ip, answer |-> a,
             position |-> position, result |-> result,
             outcome |-> performLocationVerification(result)]
  /\ UNCHANGED served

PureInit ==
  /\ now = 0
  /\ ticks = 0
  /\ env = FullEnv
  /\ guardImpl = "route"
  /\ store = Settings(NoValue, NoValue, NoValue)
  /\ settingsCache = NoCache
  /\ req = IdleReq
  /\ held = NoPass
  /\ passReject = NoResp
  /\ expiredRejected = {}
  /\ client = IdleClient
  /\ fetching = NoFetching
  /\ checks = NoChecks
  /\ dialog = ClosedDialog
  /\ probe = NoProbe

PureNext ==
  \/ ProbeNetwork
  \/ ProbeVerify
  \/ ProbeGuardPair
  \/ ProbeClientIp
  \/ ProbeCidr
  \/ ProbeCidrList
  \/ ProbeAsn
  \/ ProbeLocation

PureSpec == PureInit /\ [][PureNext]_vars

\* ------------------------------------------------------------------------
\* The browser and the endpoints together
\* ------------------------------------------------------------------------

\* What a request or a response may take on its way, and how long a user
\* may wait with a pass in hand
ClientClockSteps == {500, 12000, PASS_TTL_MS - 500}

ClientIps == {IpInside, IpOutside}

ClientFrame ==
  <<env, guardImpl, store, held, passReject, expiredRejected, fetching, checks, dialog, probe>>

\* Time passes, for the browser and the server alike
ClientTick ==
  /\ ticks < MaxTicks
  /\ \E d \in ClientClockSteps : now' = now + d
  /\ ticks' = ticks + 1
  /\ UNCHANGED <<settingsCache, req, client>>
  /\ UNCHANGED ClientFrame

\* The user starts an action, or the login page calls checkOfficePass
ClientStart ==
  /\ client.pc = "idle"
  /\ \E a \in {"check", "checkin", "checkout"} :
       client' = performStart(client, a, now)
  /\ UNCHANGED <<now, ticks, settingsCache, req>>
  /\ UNCHANGED ClientFrame

\* Logout
ClientReset ==
  /\ client.pc = "idle"
  /\ client.passRef.set
  /\ client' = resetOfficePass(client)
  /\ UNCHANGED <<now, ticks, settingsCache, req>>
  /\ UNCHANGED ClientFrame

\* The browser's GET reaches the admission gate
ClientGateArrives ==
  /\ client.pc = "toGate"
  /\ req.pc = "idle"
  /\ \E ip \in ClientIps :
       req' = BeginNetwork(
                [IdleReq EXCEPT !.endpoint = "gate",
                   !.headers = Headers(ip, Undefined, Undefined, NoPass, Undefined)],
                guardImpl, env, settingsCache, now)
  /\ client' = [client EXCEPT !.pc = "atGate"]
  /\ UNCHANGED <<now, ticks, settingsCache>>
  /\ UNCHANGED ClientFrame

\* The browser's POST reaches the checkin guard
ClientGuardArrives ==
  /\ client.pc = "toGuard"
  /\ req.pc = "idle"
  /\ \E ip \in ClientIps :
       req' = BeginGuard(
                [IdleReq EXCEPT !.endpoint = "guard", !.method = "POST",
                   !.headers = Headers(ip, Undefined, Undefined, client.sent,
                                       Undefined)],
                guardImpl, env, settingsCache, now)
  /\ client' = [client EXCEPT !.pc = "atGuard"]
  /\ UNCHANGED <<now, ticks, settingsCache>>
  /\ UNCHANGED ClientFrame

\* The gate's answer reaches checkOfficePass
ClientGateAnswer ==
  /\ client.pc = "atGate"
  /\ req.pc = "done"
  /\ client' = checkOfficePassDone(client, TRUE, req.resp, req.at, now)
  /\ req' = IdleReq
  /\ UNCHANGED <<now, ticks, settingsCache>>
  /\ UNCHANGED ClientFrame

\* The guard's answer reaches performCheckIn / performCheckOut
ClientGuardAnswer ==
  /\ client.pc = "atGuard"
  /\ req.pc = "done"
  /\ client' = performAfterGuard(client, TRUE, req.resp)
  /\ req' = IdleReq
  /\ UNCHANGED <<now, ticks, settingsCache>>
  /\ UNCHANGED ClientFrame

\* The browser's fetch rejects: the request never arrives
ClientFetchFails ==
  /\ client.pc \in {"toGate", "toGuard"}
  /\ client' = IF client.pc = "toGate"
                THEN checkOfficePassDone(client, FALSE, NoResp, 0, now)
                ELSE performAfterGuard(client, FALSE, NoResp)
  /\ UNCHANGED <<now, ticks, settingsCache, req>>
  /\ UNCHANGED ClientFrame

\* The attendance record is written
ClientWrite ==
  /\ client.pc = "write"
  /\ client' = performWrite(client)
  /\ UNCHANGED <<now, ticks, settingsCache, req>>
  /\ UNCHANGED ClientFrame

ClientInit ==
  /\ now = 0
  /\ ticks = 0
  /\ env = FullEnv
  /\ guardImpl \in {"route", "handler"}
  /\ store \in ServedStoreChoices
  /\ settingsCache = NoCache
  /\ req = IdleReq
  /\ held = NoPass
  /\ passReject = NoResp
  /\ expiredRejected = {}
  /\ client = IdleClient
  /\ fetching = NoFetching
  /\ checks = NoChecks
  /\ dialog = ClosedDialog
  /\ probe = NoProbe

ClientNext ==
  \/ ClientTick
  \/ ClientStart
  \/ ClientReset
  \/ ClientGateArrives
  \/ ClientGuardArrives
  \/ SettingsAnswer
  \/ LookupAnswer
  \/ ClientGateAnswer
  \/ ClientGuardAnswer
  \/ ClientFetchFails
  \/ ClientWrite

ClientSpec == ClientInit /\ [][ClientNext]_vars

\* ------------------------------------------------------------------------
\* The settings cache under calls that run side by side
\* ------------------------------------------------------------------------

\* A millisecond, and a millisecond short of the TTL
CacheClockSteps == {1, SETTINGS_CACHE_TTL_MS - 1}

\* The rows an administrator switches between
CacheStoreChoices ==
  { Settings(NoValue, NoValue, NoValue),
    Settings(NoValue, ArrayValue(<<AsnOffice>>), ArrayValue(<<CidrOffice>>)) }

CacheFrame ==
  <<env, guardImpl, req, held, passReject, expiredRejected, client, checks,
    dialog, probe>>

CacheTick ==
  /\ ticks < MaxTicks
  /\ \E d \in CacheClockSteps : now' = now + d
  /\ ticks' = ticks + 1
  /\ UNCHANGED <<store, settingsCache, fetching>>
  /\ UNCHANGED CacheFrame

\* An administrator rewrites the office_settings rows
CacheAdminUpdate ==
  /\ \E rows \in CacheStoreChoices : rows # store /\ store' = rows
  /\ UNCHANGED <<now, ticks, settingsCache, fetching>>
  /\ UNCHANGED CacheFrame

\* A request calls fetchOfficeSettings
CacheCall ==
  /\ \E i \in Callers :
       /\ fetching.call[i].pc \in {"idle", "ok", "failed"}
       /\ fetching' =
            [fetching EXCEPT !.call[i] =
               fetchOfficeSettingsCall(@, env, settingsCache, fetching.readAt,
                                       now)]
  /\ UNCHANGED <<now, ticks, store, settingsCache>>
  /\ UNCHANGED CacheFrame

\* The settings store answers a fetch: the rows as they are now, or a failure
CacheStoreAnswers ==
  /\ \E i \in Callers, a \in StoreAnswers :
       /\ fetching.call[i].pc = "sent"
       /\ fetching' =
            [fetching EXCEPT !.call[i] =
               [@ EXCEPT !.pc = "read", !.answer = a, !.rows = store,
                         !.readAt = now]]
  /\ UNCHANGED <<now, ticks, store, settingsCache>>
  /\ UNCHANGED CacheFrame

\* The answer reaches the call, which writes the slot and returns, or throws
CacheReturn ==
  /\ \E i \in Callers :
       /\ fetching.call[i].pc = "read"
       /\ LET c == fetchOfficeSettingsReturn(fetching.call[i], settingsCache,
                                             now)
          IN IF c.pc = "ok"
             THEN /\ settingsCache' = c.wrote
                  /\ fetching' =
                       [fetching EXCEPT !.call[i] = c, !.readAt = c.readAt,
                          !.overwrote = IF settingsCache.set
                                        THEN fetching.readAt ELSE NaN]
             ELSE /\ settingsCache' = settingsCache
                  /\ fetching' = [fetching EXCEPT !.call[i] = c]
  /\ UNCHANGED <<now, ticks, store>>
  /\ UNCHANGED CacheFrame

CacheEnvChoices ==
  { Env(SecretValue, TRUE, TRUE, TRUE),
    Env(SecretValue, TRUE, FALSE, TRUE),
    Env(SecretValue, TRUE, TRUE, FALSE) }

CacheInit ==
  /\ now = 0
  /\ ticks = 0
  /\ env \in CacheEnvChoices
  /\ guardImpl = "route"
  /\ store \in CacheStoreChoices
  /\ settingsCache = NoCache
  /\ req = IdleReq
  /\ held = NoPass
  /\ passReject = NoResp
  /\ expiredRejected = {}
  /\ client = IdleClient
  /\ fetching = NoFetching
  /\ checks = NoChecks
  /\ dialog = ClosedDialog
  /\ probe = NoProbe

CacheNext ==
  \/ CacheTick
  \/ CacheAdminUpdate
  \/ CacheCall
  \/ CacheStoreAnswers
  \/ CacheReturn

CacheSpec == CacheInit /\ [][CacheNext]_vars

\* ------------------------------------------------------------------------
\* The hook under calls that overlap: checkOfficePass and getValidPass are
\* async and nothing keeps a second call, or resetOfficePass, from running
\* while the fetch of a first is out
\* ------------------------------------------------------------------------

HookClockSteps == {1000, PASS_TTL_MS}

HookFrame ==
  <<env, guardImpl, store, settingsCache, req, held, passReject,
    expiredRejected, fetching, dialog, probe>>

HookTick ==
  /\ ticks < MaxTicks
  /\ \E d \in HookClockSteps : now' = now + d
  /\ ticks' = ticks + 1
  /\ UNCHANGED <<client, checks>>
  /\ UNCHANGED HookFrame

Started(i) ==
  [checks EXCEPT !.call[i] = [IdleCheck EXCEPT !.pc = "flying"],
                 !.lastStarted = i,
                 !.reset = IF @ = "clean" THEN "restarted" ELSE @]

\* checkOfficePass is called: status 'checking', the fetch goes out
HookCheck ==
  /\ \E i \in Checkers :
       /\ checks.call[i].pc = "idle"
       /\ client' = HookFields(checkOfficePassStart(client))
       /\ checks' = Started(i)
  /\ UNCHANGED <<now, ticks>>
  /\ UNCHANGED HookFrame

\* getValidPass is called: the held pass is returned at once, or
\* checkOfficePass is called
HookGetValidPass ==
  /\ \E i \in Checkers :
       /\ checks.call[i].pc = "idle"
       /\ LET c == getValidPass(client, now)
          IN /\ client' = HookFields(c)
             /\ checks' = IF c.pc = "toGate" THEN Started(i)
                          ELSE [checks EXCEPT !.call[i].result = c.passRef.value]
  /\ UNCHANGED <<now, ticks>>
  /\ UNCHANGED HookFrame

\* The gate answers a call's request
HookGateAnswers ==
  /\ \E i \in Checkers :
       /\ checks.call[i].pc = "flying"
       /\ \E resp \in GateAnswers(now) :
            checks' = [checks EXCEPT !.call[i].pc = "answered",
                                     !.call[i].resp = resp,
                                     !.call[i].mintedAt = now]
  /\ UNCHANGED <<now, ticks, client>>
  /\ UNCHANGED HookFrame

\* The answer reaches the call, which runs to its end
HookCheckDone ==
  /\ \E i \in Checkers :
       /\ checks.call[i].pc = "answered"
       /\ client' = HookFields(checkOfficePassDone(client, TRUE,
                       checks.call[i].resp, checks.call[i].mintedAt, now))
       /\ checks' = [checks EXCEPT !.call[i] =
                       [IdleCheck EXCEPT !.result = checks.call[i].resp.pass]]
  /\ UNCHANGED <<now, ticks>>
  /\ UNCHANGED HookFrame

\* A call's fetch rejects
HookFetchFails ==
  /\ \E i \in Checkers :
       /\ checks.call[i].pc = "flying"
       /\ client' = HookFields(checkOfficePassDone(client, FALSE, NoResp, 0, now))
       /\ checks' = [checks EXCEPT !.call[i] = IdleCheck]
  /\ UNCHANGED <<now, ticks>>
  /\ UNCHANGED HookFrame

\* handleLogout: resetOfficePass, whatever is in flight
HookReset ==
  /\ client' = resetOfficePass(client)
  /\ checks' = [checks EXCEPT !.reset = "clean"]
  /\ UNCHANGED <<now, ticks>>
  /\ UNCHANGED HookFrame

HookInit ==
  /\ now = 0
  /\ ticks = 0
  /\ env = FullEnv
  /\ guardImpl = "route"
  /\ store = Settings(NoValue, NoValue, NoValue)
  /\ settingsCache = NoCache
  /\ req = IdleReq
  /\ held = NoPass
  /\ passReject = NoResp
  /\ expiredRejected = {}
  /\ client = [IdleClient EXCEPT !.action = "check"]
  /\ fetching = NoFetching
  /\ checks = NoChecks
  /\ dialog = ClosedDialog
  /\ probe = NoProbe

HookNext ==
  \/ HookTick
  \/ HookCheck
  \/ HookGetValidPass
  \/ HookGateAnswers
  \/ HookCheckDone
  \/ HookFetchFails
  \/ HookReset

HookSpec == HookInit /\ [][HookNext]_vars

\* ------------------------------------------------------------------------
\* The dialog in the administrator's hands
\* ------------------------------------------------------------------------

\* What the administrator types into the new-IP field
NewIpTexts == {<<>>, Blank, Wildcard, PaddedIp, IpOutside}
NewAsnTexts == {<<>>, AsnOffice}
NewCidrTexts == {<<>>, CidrOffice}

\* The upserts of one submit that succeed: all, all but allowed_ips, or none
UpsertOutcomes == {SettingKeys, SettingKeys \ {"allowed_ips"}, {}}

DialogFrame ==
  <<now, ticks, env, guardImpl, store, settingsCache, req, held, passReject,
    expiredRejected, client, fetching, checks, probe>>

\* The dialog opens, which runs fetchSettings
DialogOpen ==
  /\ ~dialog.open
  /\ \E ok \in BOOLEAN :
       dialog' = fetchSettings([dialog EXCEPT !.open = TRUE], ok)
  /\ UNCHANGED DialogFrame

\* The administrator types into the new-IP, new-ASN or new-CIDR field
DialogType ==
  /\ dialog.open
  /\ \/ \E t \in NewIpTexts : dialog' = [dialog EXCEPT !.newIp = t]
     \/ \E t \in NewAsnTexts : dialog' = [dialog EXCEPT !.newAsn = t]
     \/ \E t \in NewCidrTexts : dialog' = [dialog EXCEPT !.newCidr = t]
  /\ UNCHANGED DialogFrame

DialogAddIp ==
  /\ dialog.open
  /\ dialog' = handleAddIp(dialog)
  /\ UNCHANGED DialogFrame

\* The remove button of an entry of the list
DialogRemoveIp ==
  /\ dialog.open
  /\ \E i \in DOMAIN dialog.allowedIps :
       dialog' = handleRemoveIp(dialog, dialog.allowedIps[i])
  /\ UNCHANGED DialogFrame

\* The allow-all button, shown while the list has no wildcard
DialogAllowAll ==
  /\ dialog.open
  /\ ~Includes(dialog.allowedIps, Wildcard)
  /\ dialog' = handleAllowAll(dialog)
  /\ UNCHANGED DialogFrame

DialogSubmit ==
  /\ dialog.open
  /\ \E succeeded \in UpsertOutcomes, fetchOk \in BOOLEAN :
       dialog' = handleSubmit(dialog, succeeded, fetchOk)
  /\ UNCHANGED DialogFrame

DialogInit ==
  /\ now = 0
  /\ ticks = 0
  /\ env = FullEnv
  /\ guardImpl = "route"
  /\ store = Settings(NoValue, NoValue, NoValue)
  /\ settingsCache = NoCache
  /\ req = IdleReq
  /\ held = NoPass
  /\ passReject = NoResp
  /\ expiredRejected = {}
  /\ client = IdleClient
  /\ fetching = NoFetching
  /\ checks = NoChecks
  /\ dialog = ClosedDialog
  /\ probe = NoProbe

DialogNext ==
  \/ DialogOpen
  \/ DialogType
  \/ DialogAddIp
  \/ DialogRemoveIp
  \/ DialogAllowAll
  \/ DialogSubmit

DialogSpec == DialogInit /\ [][DialogNext]_vars

\* ------------------------------------------------------------------------
\* Properties
\* ------------------------------------------------------------------------

\* A guard request that reached the check of its pass (the handler answers
\* any method but POST before that)
GuardServed ==
  /\ req.endpoint = "guard"
  /\ req.pc # "idle"
  /\ req.cause # "method"

GuardDone == GuardServed /\ req.pc = "done"

GateDone == req.endpoint = "gate" /\ req.pc = "done"

ReqIp == getClientIpFromRequest(req.headers)

\* The presented pass verified when the guard checked it
ReqPassVerified ==
  verifyOfficePass(PassHeader(req.headers), SecretOf(env), req.verifiedAt) = "true"

\* The request's address satisfies the allowlist the check used
ReqIpAllowed ==
  /\ ReqIp # Null
  /\ ipAllowedByCidrs(req.officeSettings.allowedCIDRs, ReqIp)

\* C1: the guard answers 200 only when the presented pass verifies and the
\* network check, run on the request's own address, succeeds; a verified pass
\* from an address outside the allowlist is answered 403.
C1_GuardNeedsPassAndNetwork ==
  GuardDone =>
    /\ req.resp.status = 200 =>
         /\ ReqPassVerified
         /\ req.net.state = "returned" /\ req.net.ok
         /\ req.net.ip = ReqIp
         /\ ReqIpAllowed
         /\ \/ req.officeSettings.allowedASNs = {}
            \/ req.net.asn \in req.officeSettings.allowedASNs
    /\ (ReqPassVerified /\ ~ReqIpAllowed) => req.resp.status = 403

\* C1 witness: a pass minted for the office address is presented, still
\* valid, from the outside address, and the guard answers 403.
C1_Witness ==
  /\ GuardDone
  /\ ReqPassVerified
  /\ req.headers.pass = held
  /\ Base64UrlDecode(held[1])[2].ip = IpInside
  /\ ReqIp = IpOutside
  /\ req.net.reason = "IP not in office CIDR"
  /\ req.resp.status = 403

C4_GateDenialOpaque ==
  (GateDone /\ req.net.state = "returned" /\ ~req.net.ok) =>
    /\ req.resp = Resp(403, FALSE, NoPass, "")
    /\ req.logged = req.net.reason
    /\ req.logged # ""

\* C4 witness: the gate denies the outside address for its CIDR.
C4_Witness ==
  /\ GateDone
  /\ req.net.reason = "IP not in office CIDR"
  /\ req.resp.status = 403

\* C5: the guard's rejection for the network has the status and body of its
\* rejection for an invalid pass.
C5_RejectionsAlike ==
  (GuardDone /\ req.cause = "network" /\ passReject # NoResp) =>
    req.resp = passReject

\* C6: the gate mints a pass only on an allowed network check; the pass
\* carries the checked ip and asn and exp = t + 120, t the second it was
\* minted in; the pass the client received verifies at every time whose
\* second is no later than exp.
C6_MintAndRoundTrip ==
  /\ (GateDone /\ req.resp.pass # NoPass) =>
       /\ req.resp.status = 200
       /\ req.net.state = "returned" /\ req.net.ok
       /\ ReqIpAllowed
       /\ Len(req.resp.pass) = 2
       /\ Base64UrlDecode(req.resp.pass[1]) =
            JsonText([ip |-> ReqIp, asn |-> req.net.asn,
                      exp |-> (req.at \div 1000) + 120])
  /\ (held # NoPass /\ (now \div 1000) <= Base64UrlDecode(held[1])[2].exp) =>
       verifyOfficePass(held, SecretOf(env), now) = "true"

\* C6 witness: the client holds a pass in the very second its exp names.
C6_Witness ==
  /\ held # NoPass
  /\ (now \div 1000) = Base64UrlDecode(held[1])[2].exp
  /\ now > 1000 * Base64UrlDecode(held[1])[2].exp

ProbedVerify == probe.kind = "verify"

\* The token has a body segment and a signature segment
HasBothSegments(token) ==
  Len(token) >= 2 /\ token[1] # EmptySeg /\ token[2] # EmptySeg

\* The signature segment is the text the verifier recomputes
SignatureMatches(token, secret) ==
  token[2] = Seg(Hmac(secret, Base64UrlDecode(token[1])))

\* C7: verify returns true only for a token with both segments, whose
\* signature is the HMAC of the decoded body under the secret, whose body is
\* the JSON of an object, with an exp that has not elapsed; a token lacking a
\* segment, or whose signature text differs, is rejected.
C7_VerifyConditions ==
  ProbedVerify =>
    /\ probe.result = "true" =>
         /\ HasBothSegments(probe.token)
         /\ SignatureMatches(probe.token, probe.secret)
         /\ Len(Base64UrlDecode(probe.token[1])) = 2
         /\ Base64UrlDecode(probe.token[1])[1] = "json"
         /\ Base64UrlDecode(probe.token[1])[2].exp # NoExp
         /\ (probe.nowMs \div 1000) <= Base64UrlDecode(probe.token[1])[2].exp
    /\ ~HasBothSegments(probe.token) => probe.result = "false"
    /\ (HasBothSegments(probe.token)
        /\ ~SignatureMatches(probe.token, probe.secret)) =>
         probe.result = "false"

\* C7 witness: a token that is right but for one altered character of its
\* signature text, in time, is rejected.
C7_Witness ==
  /\ ProbedVerify
  /\ HasBothSegments(probe.token)
  /\ AlterSeg(probe.token[2]) =
       Seg(Hmac(probe.secret, Base64UrlDecode(probe.token[1])))
  /\ Len(Base64UrlDecode(probe.token[1])) = 2
  /\ Base64UrlDecode(probe.token[1])[2].exp = PASS_TTL_SECONDS
  /\ probe.nowMs = 0
  /\ probe.result = "false"

\* The lookup told an ASN
AnswerHasAsn(a) == a.kind = "data" /\ a.asn # Undefined

\* A network decision for a known address whose ASN the lookup told
ProbedNetwork ==
  /\ probe.kind = "network"
  /\ probe.ip # Null
  /\ AnswerHasAsn(probe.answer)

HasWildcard(rows) == Includes(normalizeStringList(rows.allowed_ips), Wildcard)

\* C8: with "*" among allowed_ips, the decision is allow for every address
\* and ASN, whatever CIDRs and ASNs are configured.
C8_WildcardAllows ==
  (ProbedNetwork /\ HasWildcard(probe.rows)) =>
    /\ probe.server.ok
    /\ probe.client

\* The categories of the allowlist that are configured and match
ExactMatches(rows, ip) == Includes(normalizeStringList(rows.allowed_ips), ip)

CidrMatches(rows, ip) ==
  \E i \in DOMAIN normalizeStringList(rows.allowed_cidrs) :
    cidrContainsIPv4(normalizeStringList(rows.allowed_cidrs)[i], ip)

AsnMatches(rows, a) ==
  NumberOf(StripAsPrefix(a.asn)) \in normalizeAsnSet(rows.allowed_asns)

AnyCategoryConfigured(rows) ==
  \/ normalizeStringList(rows.allowed_ips) # <<>>
  \/ normalizeStringList(rows.allowed_cidrs) # <<>>
  \/ normalizeAsnSet(rows.allowed_asns) # {}

\* C9: without a wildcard and with a category configured, the server's
\* decision is allow iff the address is among the exact IPs, or in a CIDR, or
\* its ASN among the ASNs.
C9_AnyCategoryDecides ==
  (ProbedNetwork /\ ~HasWildcard(probe.rows)
   /\ AnyCategoryConfigured(probe.rows)) =>
    (probe.server.ok <=>
       \/ ExactMatches(probe.rows, probe.ip)
       \/ CidrMatches(probe.rows, probe.ip)
       \/ AsnMatches(probe.rows, probe.answer))

\* C10: a request during which the settings fetch or the ASN lookup failed is
\* answered 403, with no pass.
C10_UpstreamFailureIs403 ==
  (req.pc = "done" /\ req.upstream # "none") =>
    /\ req.resp.status = 403
    /\ req.resp.pass = NoPass

\* A secret of the environment is missing
SecretMissing(e) ==
  \/ e.OFFICE_PASS_SECRET = SECRET_UNSET
  \/ ~e.IPINFO_TOKEN
  \/ ~e.SUPABASE_URL
  \/ ~e.SUPABASE_ANON_KEY

\* C11: with a required secret missing from the environment (the pass-signing
\* secret, the lookup token, the settings store's URL or key), every guard
\* request fails with 403 or 5xx and none is admitted; with the pass-signing
\* secret unset, verify accepts no token.
C11_MissingSecretFails ==
  (GuardDone /\ SecretMissing(env)) =>
    /\ req.resp.status \in {403, 500}
    /\ env.OFFICE_PASS_SECRET = SECRET_UNSET => ~ReqPassVerified

\* C12: no request ends in an exception that its handler did not catch.
C12_NoUncaughtException ==
  req.pc = "done" => req.resp.handled

\* The running or last action is a check-in or a check-out
ActionWrites == client.action \in {"checkin", "checkout"}

HeldPassAtGuard ==
  /\ client.pc = "atGuard"
  /\ client.fromHeld
  /\ GuardServed

\* The time the pass took from the gate to the browser, and the request from
\* the browser to the guard
TransitMs ==
  (client.passRef.expiresAt - PASS_TTL_MS - client.mintedAt)
    + (req.verifiedAt - client.presentedAt)

\* C14 as stated: a pass that getValidPass returned from its held copy
\* verifies when it reaches the guard.
C14_HeldPassNeverExpired ==
  HeldPassAtGuard => ReqPassVerified

\* C14 amended: a pass that getValidPass returned from its held copy was
\* received less than 110 s before, and verifies when it reaches the guard
\* provided its way from the gate and the request's way to the guard took no
\* more than 10 s together.
C14_HeldPassValidWithinTransit ==
  HeldPassAtGuard =>
    /\ client.presentedAt < client.passRef.expiresAt
    /\ TransitMs <= 1000 * PASS_TTL_SECONDS - PASS_TTL_MS => ReqPassVerified

\* C14 witness: a held pass reaches the guard in the last second before its
\* client-side expiry, after half a second of transit, and verifies.
C14_Witness ==
  /\ HeldPassAtGuard
  /\ TransitMs = 500
  /\ client.presentedAt + 1000 > client.passRef.expiresAt
  /\ ReqPassVerified

\* C15: presented with two correctly signed passes that differ only in the
\* ip and asn they carry, the guard gives the same request the same response.
C15_PassClaimsIgnored ==
  probe.kind = "guardpair" => probe.resp1 = probe.resp2

\* C15 witness: a request from the office address is admitted with a pass
\* minted for the outside address and with one minted for the office address.
C15_Witness ==
  /\ probe.kind = "guardpair"
  /\ probe.ip = IpInside
  /\ probe.first.ip = IpOutside
  /\ probe.second.ip = IpInside
  /\ probe.rows.allowed_cidrs = ArrayValue(<<CidrOffice>>)
  /\ probe.resp1.status = 200
  /\ probe.resp2.status = 200

\* A header is present: it was sent with a value that is not empty
Present(h) == h # Undefined /\ h # <<>>

\* The text before the first comma
RECURSIVE UpToComma(_)
UpToComma(str) ==
  IF str = <<>> \/ Head(str) = "," THEN <<>>
  ELSE <<Head(str)>> \o UpToComma(Tail(str))

\* C16: the client IP is cf-connecting-ip (trimmed) when that header is
\* present; else the first comma-separated entry of x-forwarded-for,
\* trimmed, when that is present; else x-real-ip (trimmed) when present;
\* else null. A header counts as present when it has a non-empty value. A
\* request whose IP is null or empty is denied by the network check.
C16_IpHeaderPrecedence ==
  probe.kind = "clientip" =>
    /\ Present(probe.cf) => probe.ip = Trim(probe.cf)
    /\ (~Present(probe.cf) /\ Present(probe.xff)) =>
         probe.ip = Trim(UpToComma(probe.xff))
    /\ (~Present(probe.cf) /\ ~Present(probe.xff) /\ Present(probe.xri)) =>
         probe.ip = Trim(probe.xri)
    /\ (~Present(probe.cf) /\ ~Present(probe.xff) /\ ~Present(probe.xri)) =>
         probe.ip = Null
    /\ (probe.ip = Null \/ probe.ip = <<>>) =>
         probe.net = NetDenied("Cannot determine client IP")

\* C16 witness: without cf-connecting-ip, the first entry of a two-entry
\* x-forwarded-for wins over x-real-ip.
C16_Witness ==
  /\ probe.kind = "clientip"
  /\ probe.cf = Undefined
  /\ probe.xff = ForwardedList
  /\ probe.xri = IpOutside
  /\ probe.ip = IpInside

\* Bit k (1 the highest) of a 32-bit address given by its octets
BitOf(o, k) == (o[((k - 1) \div 8) + 1] \div (2 ^ (7 - ((k - 1) % 8)))) % 2

FirstBitsAgree(a, b, n) == \A k \in 1..n : BitOf(a, k) = BitOf(b, k)

\* C17: for an IPv4 address and a CIDR c/n with n in 0..32, cidrContainsIPv4
\* is true iff the first n bits of the address and of c agree; n = 0 matches
\* every address and n = 32 only c itself.
C17_CidrFirstBits ==
  probe.kind = "cidr" =>
    /\ probe.result <=> FirstBitsAgree(probe.net, probe.addr, probe.bits)
    /\ probe.bits = 0 => probe.result
    /\ probe.bits = 32 => (probe.result <=> probe.net = probe.addr)

\* C17 witness: 128.0.0.0/1 contains 203.0.113.42, the one bit compared
\* being the highest of the 32.
C17_Witness ==
  /\ probe.kind = "cidr"
  /\ probe.net = <<128, 0, 0, 0>>
  /\ probe.bits = 1
  /\ probe.addr = <<203, 0, 113, 42>>
  /\ probe.result

\* C18: a malformed CIDR entry matches no address, a malformed address is in
\* no CIDR, and beside a malformed entry the other entries of the list decide.
C18_MalformedCidrFailsClosed ==
  probe.kind = "cidrlist" =>
    /\ probe.entry \in MalformedCidrs => ~probe.alone
    /\ probe.ip \in MalformedIps => ~probe.alone /\ ~probe.result
    /\ probe.entry \in MalformedCidrs => (probe.result <=> probe.rest)

\* The number an entry of allowed_asns stands for (NaN: none)
AsnOfEntry(e) ==
  IF e = <<"A","S","x","y","z">> THEN NaN
  ELSE IF e = <<"A","S","6","4","5","0","0">> THEN 64500
  ELSE 15169

\* C19: "AS15169", "as15169", "15169" and " 15169 " normalise to 15169, and
\* an entry without digits adds nothing to the allowed set.
C19_AsnNormalization ==
  probe.kind = "asn" =>
    probe.result =
      {AsnOfEntry(e) : e \in {x \in AsnEntries :
          \/ (probe.value.kind = "array" /\ Includes(probe.value.items, x))
          \/ (probe.value.kind = "string" /\ probe.value.parsed = Undefined
              /\ probe.value.str = x)
          \/ (probe.value.kind = "string" /\ probe.value.parsed # Undefined
              /\ Includes(probe.value.parsed, x))}} \ {NaN}

\* C20 as stated: the ASN lookup is called only under a non-empty ASN
\* restriction, and without an ASN restriction no request is decided by the
\* lookup's token being unavailable.
C20_LookupOnlyWhenRestricted ==
  /\ req.pc = "asn" => req.officeSettings.allowedASNs # {}
  /\ (req.pc = "done" /\ normalizeAsnSet(store.allowed_asns) = {}) =>
       req.net.reason # "Server missing IPINFO_TOKEN"

\* C20 amended: the ASN lookup is called only under a non-empty ASN
\* restriction; a request checked against settings without one is decided
\* with no lookup call, whatever the lookup service would answer. The
\* lookup's token must be set all the same: without it the network check
\* denies every request before it reads the settings.
C20_LookupOnlyWhenRestrictedTokenSet ==
  /\ req.pc = "asn" => req.officeSettings.allowedASNs # {}
  /\ (req.pc = "done" /\ req.net.state = "returned" /\ req.net.ok
      /\ req.officeSettings.allowedASNs = {}) =>
       /\ req.upstream = "none"
       /\ req.net.asn = 0
  /\ (req.pc = "done" /\ req.net # NetPending /\ ~env.IPINFO_TOKEN) =>
       /\ req.net = NetDenied("Server missing IPINFO_TOKEN")
       /\ req.resp.status = 403

\* C20 witness: the settings read having no ASN restriction, the gate admits
\* the request without a lookup.
C20_Witness ==
  /\ GateDone
  /\ req.officeSettings.allowedASNs = {}
  /\ req.net.ok
  /\ req.net.asn = 0
  /\ req.upstream = "none"
  /\ req.resp.status = 200

\* C21: a call made while the slot holds an unexpired value (before t + 30 s,
\* t the time the fetch that filled it returned) returns that value with no
\* fetch; a call made at or after the expiry makes exactly one fetch and, the
\* fetch succeeding, writes the slot with what the store answered and an
\* expiry 30 s after its return.
C21_CacheWithinTtl ==
  \A i \in Callers :
    LET c == fetching.call[i] IN
    /\ c.pc # "idle" => (c.hit <=> c.fresh)
    /\ c.hit => c.pc = "ok" /\ c.fetches = 0 /\ c.wrote = NoCache
    /\ (c.pc # "idle" /\ ~c.fresh /\ c.error \notin
          {"Server missing SUPABASE_URL", "Server missing SUPABASE_ANON_KEY"})
         => c.fetches = 1
    /\ (c.pc = "ok" /\ ~c.hit) =>
         /\ c.wrote.set
         /\ c.wrote.value = c.value
         /\ c.value = ParseOfficeSettings(c.rows)
         /\ c.wrote.expiresAt = c.doneAt + 30000

\* C21 witness: a call made a millisecond before the expiry was a hit, and a
\* call made at the very expiry has refetched.
C21_Witness ==
  /\ fetching.call[1].pc = "ok" /\ fetching.call[1].hit
  /\ fetching.call[1].calledAt = 29999
  /\ fetching.call[2].pc = "ok" /\ ~fetching.call[2].hit
  /\ fetching.call[2].calledAt = 30000
  /\ settingsCache.expiresAt = fetching.call[2].doneAt + 30000

\* C23: a value served from the slot was read from the store no more than
\* 30 s before, and a write of the slot never replaces a value by one that
\* was read from the store earlier.
C23_StalenessBounded ==
  /\ \A i \in Callers :
       fetching.call[i].hit =>
         fetching.call[i].calledAt - fetching.call[i].readAt <= 30000
  /\ fetching.overwrote # NaN => fetching.readAt >= fetching.overwrote

\* The request's settings could not be had: the URL or the key is missing, or
\* the fetch failed
SettingsFailed(r) ==
  \/ r.upstream = "settings"
  \/ r.net.reason \in {"Server missing SUPABASE_URL",
                        "Server missing SUPABASE_ANON_KEY"}

\* C22: the step in which a request's settings fetch fails leaves the cache
\* slot as it was, hands the request no allowlist (neither the slot's expired
\* one nor an empty one), and ends the network check in a denial that carries
\* the failure's message.
C22_FetchFailurePropagates ==
  [][(req.pc # "done" /\ req'.pc = "done" /\ SettingsFailed(req')) =>
       /\ settingsCache' = settingsCache
       /\ req'.officeSettings = EmptySettings
       /\ req'.net.state = "returned"
       /\ ~req'.net.ok
       /\ req'.net.reason \in {"Server missing SUPABASE_URL",
                                 "Server missing SUPABASE_ANON_KEY",
                                 "Supabase settings fetch failed",
                                 "fetch failed"}
       /\ req'.resp.status = 403]_vars

\* C22 witness: the slot holds an expired value, the refetch has failed, and
\* the request is denied.
C22_Witness ==
  /\ req.pc = "done"
  /\ req.upstream = "settings"
  /\ settingsCache.set
  /\ settingsCache.expiresAt <= req.at
  /\ req.net.reason = "Supabase settings fetch failed"
  /\ req.resp.status = 403

\* The held pass is still good by the browser's clock
HeldPassFresh == client.passRef.set /\ client.passRef.expiresAt > now

\* C24: in a check-in or check-out, getValidPass hands out the held pass,
\* with no request to the gate, when a pass is held whose client-side expiry
\* is in the future, and asks the gate only when there is none; the pass the
\* gate answers with is installed as it was minted, with a client-side expiry
\* of 110 s from its receipt; when the request fails or brings no pass, the
\* held pass is cleared and the action gets null.
C24_NoRenewalInPlace ==
  ActionWrites =>
    /\ client.pc \in {"toGate", "atGate"} =>
         /\ ~HeldPassFresh
         /\ ~client.fromHeld
    /\ client.fromHeld =>
         /\ req.endpoint # "gate"
         /\ client.sent # NoPass
         /\ client.pc # "idle" =>
              /\ client.sent = client.passRef.value
              /\ client.presentedAt < client.passRef.expiresAt
    /\ (~client.fromHeld /\ client.sent # NoPass /\ client.pc # "idle") =>
         /\ client.passRef =
              [set |-> TRUE, value |-> client.sent,
               expiresAt |-> client.presentedAt + 110000]
         /\ Base64UrlDecode(client.sent[1])[2].exp =
              (client.mintedAt \div 1000) + PASS_TTL_SECONDS
    /\ (~client.fromHeld /\ client.sent = NoPass /\ client.pc = "idle") =>
         /\ client.passRef = NoPassRef
         /\ client.pass = NoPass
         /\ client.status = "blocked"

\* C24 witness: at the very millisecond the held pass expires by the
\* browser's clock, a check-in asks the gate for a new one.
C24_Witness ==
  /\ client.action = "checkin"
  /\ client.pc = "toGate"
  /\ client.passRef.set
  /\ client.passRef.expiresAt = now

\* The categories of the configured rules an address and its operator match,
\* stated on the rows themselves
ListedIp(rows, ip) ==
  ip # Null /\ Includes(normalizeStringList(rows.allowed_ips), ip)
InsideCidr(rows, ip) ==
  /\ ip # Null
  /\ \E i \in DOMAIN normalizeStringList(rows.allowed_cidrs) :
       cidrContainsIPv4(normalizeStringList(rows.allowed_cidrs)[i], ip)
OperatorListed(rows, ip, answer) ==
  /\ ip # Null
  /\ ClientAsn(answer) # NaN
  /\ ClientAsn(answer) \in normalizeAsnSet(rows.allowed_asns)
SpecificIps(rows) ==
  /\ Len(normalizeStringList(rows.allowed_ips)) > 0
  /\ ~Includes(normalizeStringList(rows.allowed_ips), Wildcard)

C25_WitnessStrict ==
  /\ probe.kind = "network"
  /\ SpecificIps(probe.rows)
  /\ probe.ip = IpOutside
  /\ ~probe.client
  /\ ~probe.earlier

\* The geo-fence is in force when the office_location row exists and is enabled
GeoFenceEnabled(location) == location # NoValue /\ location.enabled
DistanceMm(location, position) ==
  calculateDistance(position.latitude, position.longitude,
                    location.latitude, location.longitude)

\* C26: verifyLocation reports success exactly when the network decision and
\* the location decision both allow; the location decision allows when the
\* geo-fence is disabled (or has no row), allows exactly when the distance is
\* at most radius_meters when it is enabled and a fix was obtained, and denies
\* when it is enabled and no fix could be obtained. A failed settings query
\* yields success = false. The dashboard performs the check-in or check-out
\* exactly on success.
C26_GeoFenceDecision ==
  probe.kind = "location" =>
    /\ probe.settingsError => ~probe.result.success
    /\ ~probe.settingsError =>
         /\ probe.result.ipAllowed =
              verifyLocationNetwork(probe.rows, probe.ip, probe.answer)
         /\ probe.result.success <=>
              (probe.result.ipAllowed /\ probe.result.locationAllowed)
         /\ ~GeoFenceEnabled(probe.location) => probe.result.locationAllowed
         /\ (GeoFenceEnabled(probe.location) /\ probe.position.kind = "fix") =>
              (probe.result.locationAllowed <=>
                 DistanceMm(probe.location, probe.position)
                   <= probe.location.radius_meters * 1000)
         /\ (GeoFenceEnabled(probe.location) /\ probe.position.kind = "rejects")
              => ~probe.result.locationAllowed
    /\ (probe.outcome = "perform") <=> probe.result.success

\* the network allows, the fence is enabled with radius 100 m and the fix lies
\* 100.08 m from the office: no success
C26_Witness ==
  /\ probe.kind = "location"
  /\ ~probe.settingsError
  /\ probe.result.ipAllowed
  /\ probe.location = OfficeLocation(OfficeLat, OfficeLon, 100, TRUE)
  /\ probe.position = Fix(OfficeLat - 900, OfficeLon)
  /\ ~probe.result.locationAllowed
  /\ ~probe.result.success
  /\ probe.outcome = "toast"

\* C27: the server's network check and the browser's network decision come to
\* the same verdict for every content of allowed_ips, allowed_cidrs and
\* allowed_asns and every client address and operator.
C27_ServerClientAgree ==
  ProbedNetwork => (probe.server.ok <=> probe.client)

\* C28: whatever calls of checkOfficePass, getValidPass and resetOfficePass
\* run, one after another or overlapping, status 'allowed' comes with an
\* exposed pass that is not null and is the held pass, and status 'blocked' or
\* 'idle' comes with no exposed pass and no held pass.
C28_StatusMatchesPass ==
  /\ client.status = "allowed" =>
       /\ client.pass # NoPass
       /\ client.passRef.set
       /\ client.passRef.value = client.pass
  /\ client.status \in {"blocked", "idle"} =>
       /\ client.pass = NoPass
       /\ client.passRef = NoPassRef

\* 'blocked' after a pass was held: a call failed while another had installed
\* a pass
C28_Witness ==
  /\ client.status = "blocked"
  /\ client.passRef = NoPassRef
  /\ \E i \in Checkers : checks.call[i].result # NoPass
  /\ \E i \in Checkers : checks.call[i].pc = "idle" /\ checks.lastStarted # i

\* C29: after resetOfficePass, and until a call of checkOfficePass is started,
\* the hook holds no pass and its status is 'idle', so that a request in
\* flight when reset ran installs nothing; and once overlapping calls have all
\* completed the hook holds what the call started last returned.
C29_ResetIsFinal ==
  /\ checks.reset = "clean" =>
       /\ client.passRef = NoPassRef
       /\ client.pass = NoPass
       /\ client.status = "idle"
  /\ (/\ checks.reset = "none"
      /\ checks.lastStarted # 0
      /\ \A i \in Checkers : checks.call[i].pc = "idle") =>
       client.passRef.value = checks.call[checks.lastStarted].result

\* the first clause of C29 alone, and the second alone
C29_InFlightInstallsNothing ==
  checks.reset = "clean" =>
    /\ client.passRef = NoPassRef
    /\ client.status = "idle"
C29_LastStartedWins ==
  (/\ checks.reset = "none"
   /\ checks.lastStarted # 0
   /\ \A i \in Checkers : checks.call[i].pc = "idle") =>
    client.passRef.value = checks.call[checks.lastStarted].result

\* C30: the dialog's list of allowed IPs is never empty, the wildcard never
\* stands in it beside a specific IP, and no submit persists an empty
\* allowed_ips.
C30_DialogListWellFormed ==
  /\ dialog.allowedIps # <<>>
  /\ Includes(dialog.allowedIps, Wildcard) => dialog.allowedIps = <<Wildcard>>
  /\ dialog.saved["allowed_ips"] # NoValue =>
       dialog.saved["allowed_ips"].items # <<>>

\* the clauses of C30 on emptiness alone
C30_NeverEmpty ==
  /\ dialog.allowedIps # <<>>
  /\ dialog.saved["allowed_ips"] # NoValue =>
       dialog.saved["allowed_ips"].items # <<>>

====
